---- MODULE Spec2Model ----
(***************************************************************************)
(* Model of specway-cli: the diff engine (src/lib/diff-engine.ts), the     *)
(* schema flattener and the authentication extractors (src/lib/parser.ts). *)
(***************************************************************************)
EXTENDS Naturals, Integers, Sequences, FiniteSets, TLC

VARIABLES
    pc,          \* position of the run: "ready" before the call, "done" after
    oldActions,  \* diffSpecs: first argument
    newActions,  \* diffSpecs: second argument
    result,      \* diffSpecs: returned DiffResult, or the record of a throw
    schema,      \* schemaToFields: the schema node passed at depth 0
    fields,      \* schemaToFields: the returned ParsedField[]
    graph,       \* schemaToFields: the schema objects of a dereferenced document
    stack,       \* schemaToFields: the calls in progress, outermost first
    pushed,      \* schemaToFields: the warnings array the calls share
    dialect,     \* extractAuth*: "openapi3" or "swagger2"
    schemes,     \* extractAuth*: the security schemes in declaration order
    auth,        \* extractAuth*: the returned ParsedAuth
    at,            \* parseSpec: position of each invocation
    spec,          \* parseSpec: the caller's document of each invocation
    validator,     \* SwaggerParser: how validate and parse will answer each invocation
    validatedSpec, \* parseSpec: the document the validator resolved with
    parseWarnings, \* parseSpec: the warning list of each invocation
    called,        \* parseSpec: validator entry points and extractors each invocation ran
    parseResult,   \* parseSpec: the ParseResult each invocation resolved with
    opts,          \* commands: the flags given
    loads,         \* commands: "ok", or the message loadSpec rejects with, per document
    exitCode,      \* commands: the code passed to process.exit, -1 before it
    summary,       \* validate: the ValidationSummary after the --strict step
    report,        \* commands: what was printed
    flagValue,     \* resolveApiKey: the value of --key
    env,           \* resolveApiKey: process.env.SPECWAY_API_KEY
    configFile,    \* getConfig: ~/.specway/config.json on disk
    apiKey,        \* resolveApiKey: what the call returned or threw
    disk,          \* preview: the watched spec file on disk
    watcher,       \* preview: saves of the file so far, and 'change' events not yet handled
    specJson,      \* preview: the spec the server serves
    connections,   \* preview: the state of every SSE connection
    clients,       \* preview: the Set of connected SSE responses
    sent,          \* preview: what was written to every SSE response
    served         \* preview: the pages served, oldest first

diffVars == <<oldActions, newActions, result>>
walkVars == <<graph, stack, pushed>>
flatVars == <<schema, fields, walkVars>>
authVars == <<dialect, schemes, auth>>
parseVars == <<at, spec, validator, validatedSpec, parseWarnings, called, parseResult>>
coreVars == <<diffVars, flatVars, authVars>>
cmdVars == <<opts, loads, exitCode, summary, report>>
keyVars == <<flagValue, env, configFile, apiKey>>
serverVars == <<disk, watcher, specJson, connections, clients, sent, served>>
auxVars == <<keyVars, serverVars>>
extVars == <<parseVars, cmdVars, auxVars>>
vars == <<pc, coreVars, extVars>>

-----------------------------------------------------------------------------
(* Bounds of the model *)

MaxActions == 2     \* longest action list handed to diffSpecs
MaxParams == 2      \* longest query-parameter list of the endpoint pair runs
MaxNesting == 4     \* deepest object nesting of a generated schema
MaxSchemes == 2     \* most security schemes declared by a document
MaxChanges == 2     \* most saves of the watched spec file in a preview run
MaxPages == 2       \* most page requests in a preview run
MaxFields == 2      \* longest body or response field list of the shallow runs
MaxStack == 6       \* calls the engine's call stack holds before RangeError

-----------------------------------------------------------------------------
(* Generic helpers *)

SeqUpTo(S, n) == UNION {[1..k -> S] : k \in 0..n}

Range(s) == {s[i] : i \in 1..Len(s)}

\* String.prototype.includes
Includes(s, t) ==
    \E i \in 1..(Len(s) - Len(t) + 1) : SubSeq(s, i, i + Len(t) - 1) = t

RECURSIVE Flatten(_)
Flatten(ss) == IF ss = <<>> THEN <<>> ELSE Head(ss) \o Flatten(Tail(ss))

\* Array.prototype.map over a sequence
MapSeq(s, F(_)) == [i \in 1..Len(s) |-> F(s[i])]

\* The distinct values of s in order of first occurrence (iteration order of
\* new Set(s))
RECURSIVE SetOrder(_)
SetOrder(s) ==
    IF s = <<>> THEN <<>>
    ELSE LET init == SetOrder(SubSeq(s, 1, Len(s) - 1))
             last == s[Len(s)]
         IN  IF last \in Range(init) THEN init ELSE Append(init, last)

-----------------------------------------------------------------------------
(* ParsedField / ParsedAction (src/lib/types.ts) as the diff engine reads   *)
(* them.  absent is the set of list properties the object does not carry   *)
(* (undefined at run time).                                                *)

ParsedField(k, t, r) == [key |-> k, type |-> t, required |-> r]

ListNames == {"queryParams", "pathParams", "bodySchema", "responseSchema"}

ParsedAction(m, p, d, pp, qp, body, resp, abs) ==
    [method |-> m, path |-> p, description |-> d,
     pathParams |-> pp, queryParams |-> qp,
     bodySchema |-> body, responseSchema |-> resp, absent |-> abs]

-----------------------------------------------------------------------------
(* diff-engine.ts *)

DiffChange(t, c, msg, m, p) ==
    [type |-> t, category |-> c, message |-> msg, method |-> m, path |-> p]

ActionKey(a) == a.method \o " " \o a.path

\* Mutant: set leaves the value of a key that is already present
MapSetKeepsFirst(map, k, v) ==
    IF \E i \in 1..Len(map) : map[i].key = k
    THEN map
    ELSE Append(map, [key |-> k, value |-> v])

\* Mutant: set appends an entry even when the key is already present
MapSetAppends(map, k, v) == Append(map, [key |-> k, value |-> v])

\* Map.prototype.set on an insertion-ordered map kept as a sequence of entries
MapSet(map, k, v) ==
    IF \E i \in 1..Len(map) : map[i].key = k
    THEN [i \in 1..Len(map) |->
            IF map[i].key = k THEN [key |-> k, value |-> v] ELSE map[i]]
    ELSE Append(map, [key |-> k, value |-> v])

MapHas(map, k) == \E i \in 1..Len(map) : map[i].key = k

MapGet(map, k) == (CHOOSE e \in Range(map) : e.key = k).value

RECURSIVE BuildMap(_)
BuildMap(actions) ==
    IF actions = <<>> THEN <<>>
    ELSE LET n == Len(actions)
         IN  MapSet(BuildMap(SubSeq(actions, 1, n - 1)),
                    ActionKey(actions[n]), actions[n])

EndpointRemoved(a) ==
    DiffChange("breaking", "endpoint-removed",
               "Endpoint removed: " \o a.method \o " " \o a.path,
               a.method, a.path)

EndpointAdded(a) ==
    DiffChange("non-breaking", "endpoint-added",
               "Endpoint added: " \o a.method \o " " \o a.path,
               a.method, a.path)

RequiredParamAdded(k, m, p) ==
    DiffChange("breaking", "required-param-added",
               "Required parameter added: \"" \o k \o "\" on " \o m \o " " \o p,
               m, p)

OptionalParamAdded(k, m, p) ==
    DiffChange("non-breaking", "optional-param-added",
               "Optional parameter added: \"" \o k \o "\" on " \o m \o " " \o p,
               m, p)

ParamRemoved(k, m, p) ==
    DiffChange("breaking", "param-removed",
               "Parameter removed: \"" \o k \o "\" from " \o m \o " " \o p,
               m, p)

ParamTypeChanged(k, ot, nt, m, p) ==
    DiffChange("breaking", "param-type-changed",
               "Parameter type changed: \"" \o k \o "\" " \o ot \o " -> " \o nt
                   \o " on " \o m \o " " \o p,
               m, p)

RequiredBodyFieldAdded(k, m, p) ==
    DiffChange("breaking", "required-body-field-added",
               "Required body field added: \"" \o k \o "\" on " \o m \o " " \o p,
               m, p)

ResponseFieldRemoved(k, m, p) ==
    DiffChange("breaking", "response-field-removed",
               "Response field removed: \"" \o k \o "\" from " \o m \o " " \o p,
               m, p)

\* Mutant: a changed description is classified breaking
DescriptionChangedBreaking(m, p) ==
    DiffChange("breaking", "description-changed",
               "Description changed on " \o m \o " " \o p, m, p)

DescriptionChanged(m, p) ==
    DiffChange("non-breaking", "description-changed",
               "Description changed on " \o m \o " " \o p, m, p)

\* [...a.queryParams, ...a.pathParams]
AllParams(a) == a.queryParams \o a.pathParams

Keys(fs) == {fs[i].key : i \in 1..Len(fs)}

\* Reading a list the action does not carry: spreading, mapping or iterating
\* undefined raises a TypeError
ReadsAbsent(oldAction, newAction) ==
    oldAction.absent # {} \/ newAction.absent # {}

\* The value oldParamMap holds for key k: the last parameter set under it
LastWithKey(params, k) ==
    params[CHOOSE i \in 1..Len(params) :
              /\ params[i].key = k
              /\ \A j \in (i + 1)..Len(params) : params[j].key # k]

\* Mutant: the new required parameters are tested against their own keys
requiredParamChangesSelf(oldAction, newAction) ==
    LET newRequiredParams ==
            SelectSeq(AllParams(newAction), LAMBDA f : f.required)
    IN  MapSeq(SelectSeq(newRequiredParams,
                         LAMBDA f : f.key \notin Keys(newRequiredParams)),
               LAMBDA f : RequiredParamAdded(f.key, newAction.method,
                                             newAction.path))

\* Mutant: the new required parameters are tested against every old key, not
\* only the required ones
requiredParamChangesAnyOld(oldAction, newAction) ==
    LET oldAllParams == Keys(AllParams(oldAction))
        newRequiredParams ==
            SelectSeq(AllParams(newAction), LAMBDA f : f.required)
    IN  MapSeq(SelectSeq(newRequiredParams,
                         LAMBDA f : f.key \notin oldAllParams),
               LAMBDA f : RequiredParamAdded(f.key, newAction.method,
                                             newAction.path))

requiredParamChanges(oldAction, newAction) ==
    LET oldRequiredParams ==
            Keys(SelectSeq(AllParams(oldAction), LAMBDA f : f.required))
        newRequiredParams ==
            SelectSeq(AllParams(newAction), LAMBDA f : f.required)
    IN  MapSeq(SelectSeq(newRequiredParams,
                         LAMBDA f : f.key \notin oldRequiredParams),
               LAMBDA f : RequiredParamAdded(f.key, newAction.method,
                                             newAction.path))

\* Mutant: an added optional parameter is classified breaking
optionalParamChangesBreaking(oldAction, newAction) ==
    LET oldAllParams == Keys(AllParams(oldAction))
        newOptionalParams ==
            SelectSeq(AllParams(newAction), LAMBDA f : ~f.required)
    IN  MapSeq(SelectSeq(newOptionalParams,
                         LAMBDA f : f.key \notin oldAllParams),
               LAMBDA f : DiffChange("breaking", "optional-param-added",
                              "Optional parameter added: \"" \o f.key
                                  \o "\" on " \o newAction.method \o " "
                                  \o newAction.path,
                              newAction.method, newAction.path))

optionalParamChanges(oldAction, newAction) ==
    LET oldAllParams == Keys(AllParams(oldAction))
        newOptionalParams ==
            SelectSeq(AllParams(newAction), LAMBDA f : ~f.required)
    IN  MapSeq(SelectSeq(newOptionalParams,
                         LAMBDA f : f.key \notin oldAllParams),
               LAMBDA f : OptionalParamAdded(f.key, newAction.method,
                                             newAction.path))

\* Mutant: the loop runs over the old parameters instead of the set of
\* their keys
paramRemovedChangesPerEntry(oldAction, newAction) ==
    LET newAllParams == Keys(AllParams(newAction))
    IN  MapSeq(SelectSeq(AllParams(oldAction),
                         LAMBDA f : f.key \notin newAllParams),
               LAMBDA f : ParamRemoved(f.key, newAction.method,
                                       newAction.path))

paramRemovedChanges(oldAction, newAction) ==
    LET oldAllParams ==
            SetOrder(MapSeq(AllParams(oldAction), LAMBDA f : f.key))
        newAllParams == Keys(AllParams(newAction))
    IN  MapSeq(SelectSeq(oldAllParams, LAMBDA k : k \notin newAllParams),
               LAMBDA k : ParamRemoved(k, newAction.method, newAction.path))

paramTypeChanges(oldAction, newAction) ==
    LET oldParams == AllParams(oldAction)
        changed(f) == /\ f.key \in Keys(oldParams)
                      /\ LastWithKey(oldParams, f.key).type # f.type
    IN  MapSeq(SelectSeq(AllParams(newAction), changed),
               LAMBDA f : ParamTypeChanged(f.key,
                              LastWithKey(oldParams, f.key).type, f.type,
                              newAction.method, newAction.path))

\* Mutant: the required flag of a new body field is not tested
bodyFieldChangesAnyField(oldAction, newAction) ==
    LET oldBodyKeys == Keys(oldAction.bodySchema)
    IN  MapSeq(SelectSeq(newAction.bodySchema,
                         LAMBDA f : f.key \notin oldBodyKeys),
               LAMBDA f : RequiredBodyFieldAdded(f.key, newAction.method,
                                                 newAction.path))

bodyFieldChanges(oldAction, newAction) ==
    LET oldBodyKeys == Keys(oldAction.bodySchema)
    IN  MapSeq(SelectSeq(newAction.bodySchema,
                         LAMBDA f : f.required /\ f.key \notin oldBodyKeys),
               LAMBDA f : RequiredBodyFieldAdded(f.key, newAction.method,
                                                 newAction.path))

responseFieldChanges(oldAction, newAction) ==
    LET newResponseKeys == Keys(newAction.responseSchema)
    IN  MapSeq(SelectSeq(oldAction.responseSchema,
                         LAMBDA f : f.key \notin newResponseKeys),
               LAMBDA f : ResponseFieldRemoved(f.key, newAction.method,
                                               newAction.path))

descriptionChanges(oldAction, newAction) ==
    IF /\ oldAction.description # newAction.description
       /\ oldAction.description # ""
       /\ newAction.description # ""
    THEN <<DescriptionChanged(newAction.method, newAction.path)>>
    ELSE <<>>

\* Mutant: removed parameters are reported before added optional ones
compareEndpointsReordered(oldAction, newAction) ==
    IF ReadsAbsent(oldAction, newAction)
    THEN [threw |-> TRUE, changes |-> <<>>]
    ELSE [threw |-> FALSE,
          changes |->
              requiredParamChanges(oldAction, newAction)
              \o paramRemovedChanges(oldAction, newAction)
              \o optionalParamChanges(oldAction, newAction)
              \o paramTypeChanges(oldAction, newAction)
              \o bodyFieldChanges(oldAction, newAction)
              \o responseFieldChanges(oldAction, newAction)
              \o descriptionChanges(oldAction, newAction)]

\* The changes compareEndpoints pushes, or threw when it reads an absent list
compareEndpoints(oldAction, newAction) ==
    IF ReadsAbsent(oldAction, newAction)
    THEN [threw |-> TRUE, changes |-> <<>>]
    ELSE [threw |-> FALSE,
          changes |->
              requiredParamChanges(oldAction, newAction)
              \o optionalParamChanges(oldAction, newAction)
              \o paramRemovedChanges(oldAction, newAction)
              \o paramTypeChanges(oldAction, newAction)
              \o bodyFieldChanges(oldAction, newAction)
              \o responseFieldChanges(oldAction, newAction)
              \o descriptionChanges(oldAction, newAction)]

removedEndpoints(oldMap, newMap) ==
    MapSeq(SelectSeq(oldMap, LAMBDA e : ~MapHas(newMap, e.key)),
           LAMBDA e : EndpointRemoved(e.value))

addedEndpoints(oldMap, newMap) ==
    MapSeq(SelectSeq(newMap, LAMBDA e : ~MapHas(oldMap, e.key)),
           LAMBDA e : EndpointAdded(e.value))

modifiedEndpoints(oldMap, newMap) ==
    MapSeq(SelectSeq(newMap, LAMBDA e : MapHas(oldMap, e.key)),
           LAMBDA e : compareEndpoints(MapGet(oldMap, e.key), e.value))

CountType(changes, t) == Len(SelectSeq(changes, LAMBDA c : c.type = t))

\* Mutant: the non-breaking tally filters on a misspelt type
DiffResultMiscounts(changes) ==
    [threw |-> FALSE,
     changes |-> changes,
     breakingCount |-> CountType(changes, "breaking"),
     nonBreakingCount |-> CountType(changes, "nonbreaking")]

DiffResult(changes) ==
    [threw |-> FALSE,
     changes |-> changes,
     breakingCount |-> CountType(changes, "breaking"),
     nonBreakingCount |-> CountType(changes, "non-breaking")]

Thrown == [threw |-> TRUE, changes |-> <<>>,
           breakingCount |-> 0, nonBreakingCount |-> 0]

diffSpecs(old, new) ==
    LET oldMap == BuildMap(old)
        newMap == BuildMap(new)
        modified == modifiedEndpoints(oldMap, newMap)
    IN  IF \E i \in 1..Len(modified) : modified[i].threw
        THEN Thrown
        ELSE DiffResult(removedEndpoints(oldMap, newMap)
                        \o addedEndpoints(oldMap, newMap)
                        \o Flatten(MapSeq(modified, LAMBDA r : r.changes)))

NoResult == [threw |-> FALSE, changes |-> <<>>,
             breakingCount |-> 0, nonBreakingCount |-> 0]


-----------------------------------------------------------------------------
(* parser.ts: schema conversion *)

\* A schema node.  type "undefined" is a node that declares no type;
\* properties is the node's properties object in declaration order (read only
\* when hasProperties); items holds the item schema, if any; isRef marks a
\* node that carries $ref; isNull marks the value null standing where a
\* schema is expected.
SchemaNode(t, hasProps, props, req, its, ref) ==
    [type |-> t, hasProperties |-> hasProps, properties |-> props,
     required |-> req, items |-> its, isRef |-> ref, isNull |-> FALSE]

\* null in place of a property's schema
NullSchema ==
    [SchemaNode("undefined", FALSE, <<>>, <<>>, <<>>, FALSE) EXCEPT !.isNull = TRUE]

Property(k, s) == [key |-> k, schema |-> s]

\* A ParsedField built by the parser.  properties and items are read only
\* when hasProperties / hasItems (the field carries the property at all).
Field(k, t, r, hasProps, props, hasIts, its) ==
    [key |-> k, type |-> t, required |-> r,
     hasProperties |-> hasProps, properties |-> props,
     hasItems |-> hasIts, items |-> its]

\* Mutant: integer is not listed and falls to the default
schemaTypeToFieldTypeNoInteger(type) ==
    CASE type = "string" -> "string"
      [] type = "number" -> "number"
      [] type = "boolean" -> "boolean"
      [] type = "array" -> "array"
      [] type = "object" -> "object"
      [] OTHER -> "string"

schemaTypeToFieldType(type) ==
    CASE type = "string" -> "string"
      [] type \in {"number", "integer"} -> "number"
      [] type = "boolean" -> "boolean"
      [] type = "array" -> "array"
      [] type = "object" -> "object"
      [] OTHER -> "string"

\* Mutant: the recursion stops one level later
TooDeepLate(depth) == depth > 3

\* Mutant: the recursion stops one level earlier
TooDeepEarly(depth) == depth > 1

\* if (depth > 2) return []
TooDeep(depth) == depth > 2

RECURSIVE schemaToFields(_, _)

\* field.items of an array property: the synthetic "item" field
itemField(items, depth) ==
    LET nested == items.type = "object" /\ items.hasProperties
    IN  Field("item", schemaTypeToFieldType(items.type), FALSE,
              nested,
              IF nested THEN schemaToFields(items, depth + 1) ELSE <<>>,
              FALSE, <<>>)

\* The field pushed for one property of an object schema
propertyField(key, prop, required, depth) ==
    LET nested == prop.type = "object" /\ prop.hasProperties
        withItems == /\ prop.type = "array"
                     /\ prop.items # <<>>
                     /\ ~prop.items[1].isRef
    IN  Field(key, schemaTypeToFieldType(prop.type), key \in Range(required),
              nested,
              IF nested THEN schemaToFields(prop, depth + 1) ELSE <<>>,
              withItems,
              IF withItems THEN <<itemField(prop.items[1], depth)>> ELSE <<>>)

\* The message of the TypeError thrown while a call visits the properties of
\* its node, "" when none is: '$ref' in propSchema with propSchema null
ConvertError(node) ==
    IF /\ node.type = "object" /\ node.hasProperties
       /\ \E i \in 1..Len(node.properties) : node.properties[i].schema.isNull
    THEN "Cannot use 'in' operator to search for '$ref' in null"
    ELSE ""

\* The properties a call visits: all of them, or those before the null one
Visited(node) ==
    IF ConvertError(node) = "" THEN node.properties
    ELSE SubSeq(node.properties, 1,
                (CHOOSE i \in 1..Len(node.properties) :
                    /\ node.properties[i].schema.isNull
                    /\ \A j \in 1..(i - 1) : ~node.properties[j].schema.isNull)
                - 1)

\* Mutant: the catch swallows the exception without a warning
CatchWarningNone(node) == <<>>

\* The catch of schemaToFields: warnings.push(`Failed to convert schema: ...`)
CatchWarning(node) ==
    IF ConvertError(node) = "" THEN <<>>
    ELSE <<"Failed to convert schema: " \o ConvertError(node)>>

\* The field list a call returns; [] from the catch when the call threw
schemaToFields(node, depth) ==
    IF TooDeep(depth) THEN <<>>
    ELSE IF ConvertError(node) # "" THEN <<>>
    ELSE IF node.type = "object" /\ node.hasProperties
    THEN MapSeq(SelectSeq(node.properties, LAMBDA p : ~p.schema.isRef),
                LAMBDA p : propertyField(p.key, p.schema, node.required, depth))
    ELSE IF node.type = "array" /\ node.items # <<>> /\ ~node.items[1].isRef
    THEN schemaToFields(node.items[1], depth)
    ELSE <<>>

\* The warnings a call pushes, its nested calls included, in order
RECURSIVE schemaWarnings(_, _)

\* The warnings of the nested call made for one property, if one is made
propertyWarnings(prop, depth) ==
    IF prop.isRef THEN <<>>
    ELSE IF prop.type = "object" /\ prop.hasProperties
    THEN schemaWarnings(prop, depth + 1)
    ELSE IF /\ prop.type = "array" /\ prop.items # <<>>
            /\ ~prop.items[1].isRef
            /\ prop.items[1].type = "object" /\ prop.items[1].hasProperties
    THEN schemaWarnings(prop.items[1], depth + 1)
    ELSE <<>>

schemaWarnings(node, depth) ==
    IF TooDeep(depth) THEN <<>>
    ELSE IF node.type = "object" /\ node.hasProperties
    THEN Flatten(MapSeq(Visited(node),
                        LAMBDA p : propertyWarnings(p.schema, depth)))
         \o CatchWarning(node)
    ELSE IF node.type = "array" /\ node.items # <<>> /\ ~node.items[1].isRef
    THEN schemaWarnings(node.items[1], depth)
    ELSE <<>>

\* paramToFieldV3: null (no field) when the parameter has no schema
paramToFieldV3(param) ==
    IF param.schema = <<>> THEN <<>>
    ELSE <<Field(param.name, schemaTypeToFieldType(param.schema[1].type),
                 param.required, FALSE, <<>>, FALSE, <<>>)>>

\* paramToFieldV2: null (no field) for a parameter that carries a schema
paramToFieldV2(param) ==
    IF param.schema # <<>> THEN <<>>
    ELSE <<Field(param.name, schemaTypeToFieldType(param.type),
                 param.required, FALSE, <<>>, FALSE, <<>>)>>

-----------------------------------------------------------------------------
(* parser.ts: authentication *)

\* A security scheme as the extractors read it; in and name are those of an
\* API-key scheme, scheme that of an http scheme, the URLs those an OAuth2
\* scheme resolves to; isRef marks a $ref entry
SecurityScheme(t, sch, loc, nm, ref) ==
    [type |-> t, scheme |-> sch, in |-> loc, name |-> nm,
     authorizationUrl |-> IF t = "oauth2" THEN "https://auth.example.com/authorize" ELSE "",
     tokenUrl |-> IF t = "oauth2" THEN "https://auth.example.com/token" ELSE "",
     isRef |-> ref]

\* ParsedAuth; config is <<>> for null
ParsedAuth(t, config) == [type |-> t, config |-> config]

\* Array.prototype.find: the first entry satisfying Test, as a sequence of at
\* most one element
Find(entries, Test(_)) ==
    LET hits == SelectSeq(entries, Test)
    IN  IF hits = <<>> THEN <<>> ELSE <<hits[1]>>

\* The apiKey branch shared by both extractors: taken when the scheme has a
\* name and sits in the header or the query
ApiKeyUsable(found) ==
    /\ found # <<>>
    /\ found[1].name # ""
    /\ found[1].in \in {"header", "query"}

ApiKeyAuth(s) == ParsedAuth("apiKey", <<[name |-> s.name, in |-> s.in]>>)

OAuth2Auth(s) ==
    ParsedAuth("oauth2", <<[authorizationUrl |-> s.authorizationUrl,
                            tokenUrl |-> s.tokenUrl]>>)

\* Mutant: the bearer scheme is tried before the API-key scheme
extractAuthOpenAPI3BearerFirst(declared) ==
    LET entries == SelectSeq(declared, LAMBDA s : ~s.isRef)
        apiKeyScheme == Find(entries, LAMBDA s : s.type = "apiKey")
        bearerScheme ==
            Find(entries, LAMBDA s : s.type = "http" /\ s.scheme = "bearer")
    IN  IF bearerScheme # <<>>
        THEN ParsedAuth("bearer", <<[scheme |-> "bearer"]>>)
        ELSE IF ApiKeyUsable(apiKeyScheme) THEN ApiKeyAuth(apiKeyScheme[1])
        ELSE ParsedAuth("none", <<>>)

extractAuthOpenAPI3(declared) ==
    IF declared = <<>> THEN ParsedAuth("none", <<>>)
    ELSE
    LET entries == SelectSeq(declared, LAMBDA s : ~s.isRef)
        apiKeyScheme == Find(entries, LAMBDA s : s.type = "apiKey")
        bearerScheme ==
            Find(entries, LAMBDA s : s.type = "http" /\ s.scheme = "bearer")
        oauth2Scheme == Find(entries, LAMBDA s : s.type = "oauth2")
    IN  IF ApiKeyUsable(apiKeyScheme) THEN ApiKeyAuth(apiKeyScheme[1])
        ELSE IF bearerScheme # <<>>
        THEN ParsedAuth("bearer",
                 <<[scheme |-> IF bearerScheme[1].scheme # ""
                               THEN bearerScheme[1].scheme ELSE "bearer"]>>)
        ELSE IF oauth2Scheme # <<>> THEN OAuth2Auth(oauth2Scheme[1])
        ELSE ParsedAuth("none", <<>>)

extractAuthSwagger2(definitions) ==
    IF definitions = <<>> THEN ParsedAuth("none", <<>>)
    ELSE
    LET apiKeyScheme == Find(definitions, LAMBDA s : s.type = "apiKey")
        basicScheme == Find(definitions, LAMBDA s : s.type = "basic")
        oauth2Scheme == Find(definitions, LAMBDA s : s.type = "oauth2")
    IN  IF ApiKeyUsable(apiKeyScheme) THEN ApiKeyAuth(apiKeyScheme[1])
        ELSE IF basicScheme # <<>>
        THEN ParsedAuth("bearer", <<[scheme |-> "basic"]>>)
        ELSE IF oauth2Scheme # <<>> THEN OAuth2Auth(oauth2Scheme[1])
        ELSE ParsedAuth("none", <<>>)

-----------------------------------------------------------------------------
(* parser.ts: documents, operations and string utilities *)

\* A JavaScript value of a version marker: a string, a number or undefined
Str(s) == [type |-> "string", value |-> s]
Num == [type |-> "number", value |-> ""]
Undefined == [type |-> "undefined", value |-> ""]

\* The characters of a string, one string per character
Chars(s) == [i \in 1..Len(s) |-> SubSeq(s, i, i)]

RECURSIVE Concat(_)
Concat(ss) == IF ss = <<>> THEN "" ELSE ss[1] \o Concat(Tail(ss))

\* String.prototype.startsWith
StartsWith(s, prefix) ==
    Len(s) >= Len(prefix) /\ SubSeq(s, 1, Len(prefix)) = prefix

LowerCaseLetters ==
    <<"a", "b", "c", "d", "e", "f", "g", "h", "i", "j", "k", "l", "m",
      "n", "o", "p", "q", "r", "s", "t", "u", "v", "w", "x", "y", "z">>

UpperCaseLetters ==
    <<"A", "B", "C", "D", "E", "F", "G", "H", "I", "J", "K", "L", "M",
      "N", "O", "P", "Q", "R", "S", "T", "U", "V", "W", "X", "Y", "Z">>

Digits == <<"0", "1", "2", "3", "4", "5", "6", "7", "8", "9">>

\* The position of a character in a list of characters, 0 when it is not there
IndexOf(c, list) ==
    IF \E i \in 1..Len(list) : list[i] = c
    THEN CHOOSE i \in 1..Len(list) : list[i] = c
    ELSE 0

ToUpperChar(c) ==
    IF IndexOf(c, LowerCaseLetters) > 0
    THEN UpperCaseLetters[IndexOf(c, LowerCaseLetters)] ELSE c

ToLowerChar(c) ==
    IF IndexOf(c, UpperCaseLetters) > 0
    THEN LowerCaseLetters[IndexOf(c, UpperCaseLetters)] ELSE c

\* String.prototype.toUpperCase / toLowerCase
ToUpperCase(s) == Concat([i \in 1..Len(s) |-> ToUpperChar(SubSeq(s, i, i))])
ToLowerCase(s) == Concat([i \in 1..Len(s) |-> ToLowerChar(SubSeq(s, i, i))])

\* [a-z0-9] and \w
IsSlugChar(c) == IndexOf(c, LowerCaseLetters) > 0 \/ IndexOf(c, Digits) > 0
IsWordChar(c) == IsSlugChar(c) \/ IndexOf(c, UpperCaseLetters) > 0 \/ c = "_"

\* generateSlug: lower-case, every run of other characters becomes one "-",
\* leading and trailing "-" are stripped
generateSlug(input) ==
    LET cs == Chars(ToLowerCase(input))
        dashed == [i \in 1..Len(cs) |-> IF IsSlugChar(cs[i]) THEN cs[i] ELSE "-"]
        kept == {i \in 1..Len(cs) :
                    \/ dashed[i] # "-"
                    \/ /\ \E j \in 1..(i - 1) : dashed[j] # "-"
                       /\ \E j \in (i + 1)..Len(cs) : dashed[j] # "-"
                       /\ dashed[i - 1] # "-"}
    IN  Concat([n \in 1..Cardinality(kept) |->
                   dashed[CHOOSE i \in kept :
                            Cardinality({j \in kept : j < i}) = n - 1]])

\* toTitleCase: "-" and "_" become spaces, then the first character of every
\* word is upper-cased
toTitleCase(str) ==
    LET cs == Chars(str)
        spaced == [i \in 1..Len(cs) |->
                      IF cs[i] \in {"-", "_"} THEN " " ELSE cs[i]]
    IN  Concat([i \in 1..Len(cs) |->
                   IF IsWordChar(spaced[i])
                      /\ (i = 1 \/ ~IsWordChar(spaced[i - 1]))
                   THEN ToUpperChar(spaced[i]) ELSE spaced[i]])

-----------------------------------------------------------------------------
(* parser.ts: operations and the actions built from them *)

HTTP_METHODS == <<"get", "post", "put", "patch", "delete">>

\* A JavaScript value that should be an array: undefined, an array with its
\* items, or a value of another type ("object", "string")
Absent == [type |-> "undefined", items |-> <<>>]
Array(items) == [type |-> "array", items |-> items]
NotArray(t) == [type |-> t, items |-> <<>>]

\* A parameter object as the extractors read it
Parameter(nm, loc, req, t, sch) ==
    [name |-> nm, in |-> loc, required |-> req, type |-> t, schema |-> sch]

\* A request body or a response: a $ref, or an object with at most one JSON
\* schema
Content(ref, sch) == [isRef |-> ref, schema |-> sch]

\* An operation object.  operationId and summary are "" when absent;
\* requestBody and success are sequences of at most one schema-bearing object,
\* success being the 200 response; created and anySuccess are the 201 and
\* 2XX responses; hasResponses is FALSE for an operation without a responses
\* object
Operation(id, sum, params, body, hasResp, success, tags, dep) ==
    [operationId |-> id, summary |-> sum, description |-> "",
     parameters |-> params, requestBody |-> body,
     hasResponses |-> hasResp, success |-> success,
     created |-> <<>>, anySuccess |-> <<>>,
     tags |-> tags, deprecated |-> dep]

\* The operation with 201 and 2XX responses declared
WithResponses(op, created, anySuccess) ==
    [op EXCEPT !.created = created, !.anySuccess = anySuccess]

\* A path item: the path and the operations it declares, by method
PathItem(p, ops) == [path |-> p, operations |-> ops]

\* A value paired with the warning list after computing it
WithWarnings(v, ws) == [value |-> v, warnings |-> ws]

\* The message of the TypeError raised in createAction*, "" when none is:
\* iterating parameters that are not an array
ActionError(op) ==
    IF op.parameters.type \notin {"undefined", "array"}
    THEN "op.parameters is not iterable" ELSE ""

extractBodyV3(requestBody, warnings) ==
    IF requestBody = <<>> \/ requestBody[1].isRef THEN WithWarnings(<<>>, warnings)
    ELSE IF requestBody[1].schema = <<>> THEN WithWarnings(<<>>, warnings)
    ELSE WithWarnings(schemaToFields(requestBody[1].schema[1], 0),
                      warnings \o schemaWarnings(requestBody[1].schema[1], 0))

\* Mutant: the 201 response is looked up before the 200 response
SuccessResponseCreatedFirst(op) ==
    IF op.created # <<>> THEN op.created
    ELSE IF op.success # <<>> THEN op.success
    ELSE op.anySuccess

\* responses['200'] || responses['201'] || responses['2XX']
SuccessResponse(op) ==
    IF op.success # <<>> THEN op.success
    ELSE IF op.created # <<>> THEN op.created
    ELSE op.anySuccess

\* The rest of extractResponse* once the success response is picked
ResponseFields(success, warnings) ==
    IF success = <<>> \/ success[1].isRef THEN WithWarnings(<<>>, warnings)
    ELSE IF success[1].schema = <<>> THEN WithWarnings(<<>>, warnings)
    ELSE WithWarnings(schemaToFields(success[1].schema[1], 0),
                      warnings \o schemaWarnings(success[1].schema[1], 0))

\* extractResponseV3 and extractResponseSwagger2: reading "200" of an absent
\* responses object throws inside the try and becomes a warning
extractResponse(op, warnings) ==
    IF ~op.hasResponses
    THEN WithWarnings(<<>>,
             Append(warnings,
                 "Failed to extract response schema: "
                 \o "Cannot read properties of undefined (reading '200')"))
    ELSE ResponseFields(SuccessResponse(op), warnings)

\* The ParsedAction literal both createAction* functions return
Action(path, method, op, pathParams, queryParams, bodySchema, responseSchema) ==
    LET slug == generateSlug(IF op.operationId # "" THEN op.operationId
                             ELSE method \o "-" \o path)
    IN  [slug |-> slug,
         label |-> IF op.summary # "" THEN op.summary ELSE toTitleCase(slug),
         description |-> IF op.description # "" THEN op.description
                         ELSE op.summary,
         method |-> ToUpperCase(method),
         path |-> path,
         pathParams |-> pathParams,
         queryParams |-> queryParams,
         bodySchema |-> bodySchema,
         responseSchema |-> responseSchema,
         tags |-> op.tags,
         deprecated |-> op.deprecated]

\* The warning pushed by the catch of createAction*
FailedToParse(method, path, message) ==
    "Failed to parse " \o ToUpperCase(method) \o " " \o path \o ": " \o message

\* Mutant: the failure of an operation is thrown on to the document
createActionOpenAPI3Rethrows(path, method, op, warnings) ==
    [threw |-> ActionError(op) # "", message |-> ActionError(op),
     value |-> <<>>, warnings |-> warnings]

\* createActionOpenAPI3: value is <<>> for null, else the action
createActionOpenAPI3(path, method, op, warnings) ==
    IF ActionError(op) # ""
    THEN [threw |-> FALSE, message |-> "", value |-> <<>>,
          warnings |-> Append(warnings,
                           FailedToParse(method, path, ActionError(op)))]
    ELSE
    LET fieldsIn(loc) ==
            Flatten(MapSeq(SelectSeq(op.parameters.items, LAMBDA p : p.in = loc),
                           paramToFieldV3))
        body == extractBodyV3(op.requestBody, warnings)
        response == extractResponse(op, body.warnings)
    IN  [threw |-> FALSE, message |-> "",
         value |-> <<Action(path, method, op, fieldsIn("path"),
                            fieldsIn("query"), body.value, response.value)>>,
         warnings |-> response.warnings]

\* createActionSwagger2: the last body parameter with a schema gives the body
createActionSwagger2(path, method, op, warnings) ==
    IF ActionError(op) # ""
    THEN [threw |-> FALSE, message |-> "", value |-> <<>>,
          warnings |-> Append(warnings,
                           FailedToParse(method, path, ActionError(op)))]
    ELSE
    LET fieldsIn(loc) ==
            Flatten(MapSeq(SelectSeq(op.parameters.items, LAMBDA p : p.in = loc),
                           paramToFieldV2))
        bodies == SelectSeq(op.parameters.items,
                            LAMBDA p : p.in = "body" /\ p.schema # <<>>)
        bodySchema == IF bodies = <<>> THEN <<>>
                      ELSE schemaToFields(bodies[Len(bodies)].schema[1], 0)
        bodyWarnings ==
            Flatten(MapSeq(bodies, LAMBDA p : schemaWarnings(p.schema[1], 0)))
        response == extractResponse(op, warnings \o bodyWarnings)
    IN  [threw |-> FALSE, message |-> "",
         value |-> <<Action(path, method, op, fieldsIn("path"),
                            fieldsIn("query"), bodySchema, response.value)>>,
         warnings |-> response.warnings]

\* The operations of a paths object in the order the extractors visit them
Operations(paths) ==
    Flatten(MapSeq(paths, LAMBDA item :
        MapSeq(SelectSeq(HTTP_METHODS,
                         LAMBDA m : m \in DOMAIN item.operations),
               LAMBDA m : [path |-> item.path, method |-> m,
                           operation |-> item.operations[m]])))

createAction(version, o, warnings) ==
    IF version = "openapi3"
    THEN createActionOpenAPI3(o.path, o.method, o.operation, warnings)
    ELSE createActionSwagger2(o.path, o.method, o.operation, warnings)

\* The loop of extractActionsOpenAPI3 / extractActionsSwagger2 over the
\* remaining operations; Extracted is the rest of one iteration once
\* createAction* has returned or thrown
RECURSIVE extractActionsFrom(_, _, _, _)
Extracted(version, rest, actions, created) ==
    IF created.threw
    THEN [threw |-> TRUE, message |-> created.message,
          value |-> actions, warnings |-> created.warnings]
    ELSE extractActionsFrom(version, rest, actions \o created.value,
                            created.warnings)

extractActionsFrom(version, ops, actions, warnings) ==
    IF ops = <<>>
    THEN [threw |-> FALSE, message |-> "", value |-> actions,
          warnings |-> warnings]
    ELSE Extracted(version, Tail(ops), actions,
                   createAction(version, ops[1], warnings))

extractActionsOpenAPI3(paths, warnings) ==
    extractActionsFrom("openapi3", Operations(paths), <<>>, warnings)

extractActionsSwagger2(paths, warnings) ==
    extractActionsFrom("swagger2", Operations(paths), <<>>, warnings)

-----------------------------------------------------------------------------
(* parser.ts: parseSpec and the document parsers *)

\* A specification document.  object tells the caller's object from a
\* structured clone of it; info is <<>> when the document's info is null;
\* dereferenced is set by the validator on the object it worked on
Document(openapi, swagger, info, paths, security) ==
    [object |-> "input", dereferenced |-> FALSE,
     openapi |-> openapi, swagger |-> swagger, info |-> info,
     servers |-> <<>>, host |-> "", basePath |-> "", schemes |-> <<>>,
     paths |-> paths, security |-> security]

Info(title, version) == [title |-> title, description |-> "", version |-> version]

\* structuredClone: the same content in a new object
structuredClone(doc) == [doc EXCEPT !.object = "clone"]

\* Mutant: a failure that carries the model extracted so far
FailureWithModel(error, details) ==
    [success |-> FALSE, error |-> error, details |-> details,
     api |-> [actions |-> <<>>, warnings |-> <<>>]]

\* ParseFailure
Failure(error, details) ==
    [success |-> FALSE, error |-> error, details |-> details]

\* ParseSuccess
Success(api) == [success |-> TRUE, api |-> api]

ParsedAPI(info, baseUrl, parsedAuth, actions, warnings) ==
    [name |-> IF info.title # "" THEN info.title ELSE "Untitled API",
     description |-> info.description,
     version |-> info.version,
     baseUrl |-> baseUrl,
     auth |-> parsedAuth,
     actions |-> actions,
     warnings |-> warnings]

\* The TypeError of reading spec.info.title of a document whose info is null
NoInfoError == "Cannot read properties of null (reading 'title')"

isOpenAPI3(doc) ==
    doc.openapi.type = "string" /\ StartsWith(doc.openapi.value, "3.")

isSwagger2(doc) == doc.swagger = Str("2.0")

\* The try of a document parser once the actions are extracted: the catch
\* turns what was thrown into a failure, else the model is returned
Parsed(error, info, baseUrl, parsedAuth, extracted) ==
    IF extracted.threw THEN Failure(error, extracted.message)
    ELSE IF info = <<>> THEN Failure(error, NoInfoError)
    ELSE Success(ParsedAPI(info[1], baseUrl, parsedAuth,
                           extracted.value, extracted.warnings))

parseOpenAPI3(doc, initialWarnings) ==
    Parsed("Failed to parse OpenAPI 3 specification", doc.info,
           IF Len(doc.servers) > 0 THEN doc.servers[1]
           ELSE "https://api.example.com",
           extractAuthOpenAPI3(doc.security),
           extractActionsOpenAPI3(doc.paths, initialWarnings))

parseSwagger2(doc, initialWarnings) ==
    Parsed("Failed to parse Swagger 2.0 specification", doc.info,
           (IF doc.schemes # <<>> THEN doc.schemes[1] ELSE "https")
           \o "://"
           \o (IF doc.host # "" THEN doc.host ELSE "api.example.com")
           \o doc.basePath,
           extractAuthSwagger2(doc.security),
           extractActionsSwagger2(doc.paths, initialWarnings))

\* Mutant: the swagger marker is tested before the openapi marker
DialectOfSwaggerFirst(doc) ==
    IF isSwagger2(doc) THEN "parseSwagger2"
    ELSE IF isOpenAPI3(doc) THEN "parseOpenAPI3"
    ELSE "none"

\* The document parser parseSpec hands a validated document to
DialectOf(doc) ==
    IF isOpenAPI3(doc) THEN "parseOpenAPI3"
    ELSE IF isSwagger2(doc) THEN "parseSwagger2"
    ELSE "none"

\* parseSpec after validation: dispatch on the dialect
ParseValidated(doc, warnings) ==
    CASE DialectOf(doc) = "parseOpenAPI3" -> parseOpenAPI3(doc, warnings)
      [] DialectOf(doc) = "parseSwagger2" -> parseSwagger2(doc, warnings)
      [] OTHER -> Failure("Unsupported specification version",
                          "Only OpenAPI 3.x and Swagger 2.0 are supported")

\* How a call of the validator settles: it resolves, or it throws a value
\* that is an Error with a message, or one that is not an Error
Resolves == [threw |-> FALSE, isError |-> FALSE, message |-> ""]
Rejects(message) == [threw |-> TRUE, isError |-> TRUE, message |-> message]
RejectsNonError == [threw |-> TRUE, isError |-> FALSE, message |-> ""]

\* msg of the catch of parseSpec
MessageOf(outcome) ==
    IF outcome.isError THEN outcome.message ELSE "Unknown validation error"

\* Mutant: every validation error is taken for an unresolved reference
isMissingRefAlways(msg) == TRUE

isMissingRef(msg) ==
    Includes(msg, "Missing $ref pointer") \/ Includes(msg, "does not exist")

InvalidSpecification(msg) ==
    Failure("Invalid OpenAPI/Swagger specification", msg)

\* The validator dereferences in place the object it is handed
Dereferenced(doc) == [doc EXCEPT !.dereferenced = TRUE]

-----------------------------------------------------------------------------
(* parser.ts: parseSpec as the steps between its await points *)

\* The parseSpec invocations of a run
Calls == {1, 2}

\* The result of an invocation that has not resolved
Pending == [pending |-> TRUE]

\* Mutant: one warning list shared by every invocation
PushWarningShared(lists, i, w) == [j \in DOMAIN lists |-> Append(lists[j], w)]

\* parseWarnings.push(w) of invocation i
PushWarning(lists, i, w) == [lists EXCEPT ![i] = Append(@, w)]

\* The extractor log entry of a dispatch
Ran(doc) == IF DialectOf(doc) = "none" THEN <<>> ELSE <<DialectOf(doc)>>

\* parseSpec up to its first await: validate is called on a clone
CallValidate(i) ==
    /\ at[i] = "start"
    /\ at' = [at EXCEPT ![i] = "validate"]
    /\ called' = [called EXCEPT ![i] = Append(@, "validate")]
    /\ UNCHANGED <<pc, spec, validator, validatedSpec, parseWarnings,
                   parseResult, coreVars, cmdVars, auxVars>>

\* validate settles: on success the document is dispatched and extracted; an
\* unresolved reference is recorded and parse is called on a second clone;
\* any other error fails the invocation
ValidateSettles(i) ==
    /\ at[i] = "validate"
    /\ LET outcome == validator[i].validate
           handed == structuredClone(spec[i])
           msg == MessageOf(outcome)
       IN  IF ~outcome.threw
           THEN /\ validatedSpec' = [validatedSpec EXCEPT ![i] = Dereferenced(handed)]
                /\ spec' = IF handed.object = spec[i].object
                           THEN [spec EXCEPT ![i] = Dereferenced(handed)]
                           ELSE spec
                /\ called' = [called EXCEPT ![i] = @ \o Ran(Dereferenced(handed))]
                /\ parseResult' =
                       [parseResult EXCEPT
                           ![i] = ParseValidated(Dereferenced(handed),
                                                 parseWarnings[i])]
                /\ at' = [at EXCEPT ![i] = "done"]
                /\ UNCHANGED parseWarnings
           ELSE IF isMissingRef(msg)
           THEN /\ parseWarnings' =
                       PushWarning(parseWarnings, i,
                                   "Unresolved references: " \o msg)
                /\ called' = [called EXCEPT ![i] = Append(@, "parse")]
                /\ at' = [at EXCEPT ![i] = "parse"]
                /\ UNCHANGED <<spec, validatedSpec, parseResult>>
           ELSE /\ parseResult' =
                       [parseResult EXCEPT ![i] = InvalidSpecification(msg)]
                /\ at' = [at EXCEPT ![i] = "done"]
                /\ UNCHANGED <<spec, validatedSpec, parseWarnings, called>>
    /\ UNCHANGED <<pc, validator, coreVars, cmdVars, auxVars>>

\* The reference-tolerant parse settles: its document is dispatched and
\* extracted, its failure fails the invocation with the validation message
ParseSettles(i) ==
    /\ at[i] = "parse"
    /\ LET outcome == validator[i].parse
           handed == structuredClone(spec[i])
           msg == MessageOf(validator[i].validate)
       IN  IF ~outcome.threw
           THEN /\ validatedSpec' = [validatedSpec EXCEPT ![i] = handed]
                /\ called' = [called EXCEPT ![i] = @ \o Ran(handed)]
                /\ parseResult' =
                       [parseResult EXCEPT
                           ![i] = ParseValidated(handed, parseWarnings[i])]
           ELSE /\ parseResult' =
                       [parseResult EXCEPT ![i] = InvalidSpecification(msg)]
                /\ UNCHANGED <<validatedSpec, called>>
    /\ at' = [at EXCEPT ![i] = "done"]
    /\ UNCHANGED <<pc, spec, validator, parseWarnings, coreVars, cmdVars, auxVars>>

\* parseSpec run to completion on its own: the result of running the steps
\* above without any other invocation
parseSpecAlone(doc, behaviour) ==
    LET msg == MessageOf(behaviour.validate)
        warned == <<"Unresolved references: " \o msg>>
    IN  IF ~behaviour.validate.threw
        THEN ParseValidated(Dereferenced(structuredClone(doc)), <<>>)
        ELSE IF ~isMissingRef(msg) THEN InvalidSpecification(msg)
        ELSE IF behaviour.parse.threw THEN InvalidSpecification(msg)
        ELSE ParseValidated(structuredClone(doc), warned)

-----------------------------------------------------------------------------
(* parser.ts: buildValidationSummary *)

\* The characters of the model's strings in the order of their UTF-16 code
\* units, the order of Array.prototype.sort without a comparator
CodeUnitOrder ==
    <<" ", "-", "/">> \o Digits \o UpperCaseLetters \o <<"_">>
    \o LowerCaseLetters \o <<"{", "}">>

CodeUnit(c) == IndexOf(c, CodeUnitOrder)

\* a sorts strictly before b
RECURSIVE StringLess(_, _)
StringLess(a, b) ==
    IF b = "" THEN FALSE
    ELSE IF a = "" THEN TRUE
    ELSE IF SubSeq(a, 1, 1) # SubSeq(b, 1, 1)
    THEN CodeUnit(SubSeq(a, 1, 1)) < CodeUnit(SubSeq(b, 1, 1))
    ELSE StringLess(SubSeq(a, 2, Len(a)), SubSeq(b, 2, Len(b)))

\* [...].sort() of a duplicate-free list of strings
RECURSIVE Sorted(_)
Sorted(ss) ==
    IF ss = <<>> THEN <<>>
    ELSE LET least == CHOOSE s \in Range(ss) :
                          \A t \in Range(ss) : ~StringLess(t, s)
         IN  <<least>> \o Sorted(SelectSeq(ss, LAMBDA s : s # least))

\* Set.prototype.add of every element of items, in order, to a Set kept in
\* insertion order
RECURSIVE AddAll(_, _)
AddAll(seen, items) ==
    IF items = <<>> THEN seen
    ELSE AddAll(IF items[1] \in Range(seen) THEN seen
                ELSE Append(seen, items[1]),
                Tail(items))

\* allTags after the loop over the actions
RECURSIVE AllTags(_, _)
AllTags(seen, actions) ==
    IF actions = <<>> THEN seen
    ELSE AllTags(IF actions[1].tags.type = "array"
                 THEN AddAll(seen, actions[1].tags.items) ELSE seen,
                 Tail(actions))

\* Mutant: a method seen again does not add to its count
EndpointsByMethodOnce(actions) ==
    [m \in {a.method : a \in Range(actions)} |-> 1]

\* endpointsByMethod after the loop: one key per method that occurs
EndpointsByMethod(actions) ==
    [m \in {a.method : a \in Range(actions)} |->
        Cardinality({i \in 1..Len(actions) : actions[i].method = m})]

\* tags.forEach of a truthy tags value that is not an array
TagsError(actions) ==
    IF \E i \in 1..Len(actions) :
          actions[i].tags.type \notin {"undefined", "array"}
    THEN "action.tags.forEach is not a function" ELSE ""

buildValidationSummary(api, errors) ==
    IF TagsError(api.actions) # ""
    THEN [threw |-> TRUE, message |-> TagsError(api.actions)]
    ELSE [threw |-> FALSE,
          title |-> api.name,
          version |-> IF api.version # "" THEN api.version ELSE "unknown",
          baseUrl |-> api.baseUrl,
          authType |-> api.auth.type,
          endpointCount |-> Len(api.actions),
          endpointsByMethod |-> EndpointsByMethod(api.actions),
          tags |-> Sorted(AllTags(<<>>, api.actions)),
          errors |-> errors,
          warnings |-> api.warnings,
          deprecated |->
              Cardinality({i \in 1..Len(api.actions) : api.actions[i].deprecated})]

-----------------------------------------------------------------------------
(* commands: validate and diff *)

NoSummary == [threw |-> FALSE, endpointCount |-> 0]

\* What a command printed: nothing yet, text, or the JSON object
NoReport == [kind |-> "none"]
TextReport == [kind |-> "text"]
JsonReport(object) == [kind |-> "json", object |-> object]

\* The report of a failure: JSON when --json is given
ErrorReport(object) ==
    IF opts.json THEN JsonReport(object) ELSE TextReport

\* validate: loadSpec settles; its failure is caught and exits 1
ValidateLoad ==
    /\ pc = "validate"
    /\ IF loads[1] = "ok"
       THEN /\ at' = [at EXCEPT ![1] = "start"]
            /\ pc' = "validate-parse"
            /\ UNCHANGED <<exitCode, report>>
       ELSE /\ report' = ErrorReport([valid |-> FALSE, error |-> loads[1]])
            /\ exitCode' = 1
            /\ pc' = "done"
            /\ UNCHANGED at
    /\ UNCHANGED <<spec, validator, validatedSpec, parseWarnings, called,
                   parseResult, opts, loads, summary, coreVars, auxVars>>

\* summary.errors after the --strict step
StrictErrors(built) ==
    IF opts.strict /\ Len(built.warnings) > 0
    THEN built.errors \o MapSeq(built.warnings, LAMBDA w : "[strict] " \o w)
    ELSE built.errors

\* process.exit(summary.errors.length > 0 ? 1 : 0)
ValidateExitCode(built) == IF Len(built.errors) > 0 THEN 1 ELSE 0

\* validate after parseSpec resolved: the failure report, or the summary
ValidateReport ==
    /\ pc = "validate-parse"
    /\ at[1] = "done"
    /\ LET parsed == parseResult[1]
           built == buildValidationSummary(parsed.api, <<>>)
           final == [built EXCEPT !.errors = StrictErrors(built)]
       IN  IF ~parsed.success
           THEN /\ report' = ErrorReport([valid |-> FALSE,
                                          error |-> parsed.error,
                                          details |-> parsed.details])
                /\ exitCode' = 1
                /\ UNCHANGED summary
           ELSE IF built.threw
           THEN /\ report' = ErrorReport([valid |-> FALSE,
                                          error |-> built.message])
                /\ exitCode' = 1
                /\ UNCHANGED summary
           ELSE /\ summary' = final
                /\ report' = IF opts.json
                             THEN JsonReport([valid |-> Len(final.errors) = 0,
                                              summary |-> final])
                             ELSE TextReport
                /\ exitCode' = ValidateExitCode(final)
    /\ pc' = "done"
    /\ UNCHANGED <<parseVars, opts, loads, coreVars, auxVars>>

\* The fields of a parsed action as the diff engine reads them
DiffFields(fs) == MapSeq(fs, LAMBDA f : ParsedField(f.key, f.type, f.required))

DiffInput(actions) ==
    MapSeq(actions, LAMBDA a :
        ParsedAction(a.method, a.path, a.description,
                     DiffFields(a.pathParams), DiffFields(a.queryParams),
                     DiffFields(a.bodySchema), DiffFields(a.responseSchema),
                     {}))

\* diff: both loadSpec calls settle; a failure of either is caught and exits 1
DiffLoad ==
    /\ pc = "diff"
    /\ IF \A i \in Calls : loads[i] = "ok"
       THEN /\ at' = [i \in Calls |-> "start"]
            /\ pc' = "diff-parse"
            /\ UNCHANGED <<exitCode, report>>
       ELSE /\ report' = ErrorReport(
                   [error |-> IF loads[1] # "ok" THEN loads[1] ELSE loads[2]])
            /\ exitCode' = 1
            /\ pc' = "done"
            /\ UNCHANGED at
    /\ UNCHANGED <<spec, validator, validatedSpec, parseWarnings, called,
                   parseResult, opts, loads, summary, coreVars, auxVars>>

\* changes after --breaking-only
Shown(changes) ==
    IF opts.breakingOnly
    THEN SelectSeq(changes, LAMBDA c : c.type = "breaking")
    ELSE changes

\* Mutant: the exit code follows the changes shown
DiffExitCodeAnyChange(diff) == IF Len(diff.changes) > 0 THEN 1 ELSE 0

\* process.exit(result.breakingCount > 0 ? 1 : 0)
DiffExitCode(diff) == IF diff.breakingCount > 0 THEN 1 ELSE 0

\* diff after both parseSpec calls resolved
DiffReport ==
    /\ pc = "diff-parse"
    /\ \A i \in Calls : at[i] = "done"
    /\ LET old == parseResult[1]
           new == parseResult[2]
           diff == diffSpecs(DiffInput(old.api.actions),
                             DiffInput(new.api.actions))
       IN  IF ~old.success \/ ~new.success
           THEN /\ report' = TextReport
                /\ exitCode' = 1
                /\ UNCHANGED diffVars
           ELSE /\ oldActions' = DiffInput(old.api.actions)
                /\ newActions' = DiffInput(new.api.actions)
                /\ result' = diff
                /\ IF diff.threw
                   THEN /\ report' = ErrorReport([error |-> "TypeError"])
                        /\ exitCode' = 1
                   ELSE /\ report' =
                               IF opts.json
                               THEN JsonReport(
                                        [breakingCount |-> diff.breakingCount,
                                         nonBreakingCount |-> diff.nonBreakingCount,
                                         changes |-> Shown(diff.changes)])
                               ELSE TextReport
                        /\ exitCode' = DiffExitCode(diff)
    /\ pc' = "done"
    /\ UNCHANGED <<parseVars, opts, loads, summary, flatVars, authVars, auxVars>>

-----------------------------------------------------------------------------
(* config.ts: getConfig, setConfig and resolveApiKey *)

\* A file on disk.  kind is "none" for a missing file, "json" and "yaml" for
\* a file that parses as such, "garbage" for one that does not; value is
\* what it parses to: the object of a config file, the one-element sequence
\* of the title of a spec file, <<>> when there is nothing to parse
File(kind, value) == [kind |-> kind, value |-> value]
NoFile == File("none", <<>>)

\* What JSON.parse returns for a config file: null, or an object whose apiKey
\* is the sequence of at most one string
JsonNull == [type |-> "null", apiKey |-> <<>>]
JsonObject(key) == [type |-> "object", apiKey |-> key]

\* getConfig: {} for a missing or unparsable file, else what the file holds
getConfig(file) ==
    IF file.kind # "json" THEN JsonObject(<<>>) ELSE file.value

\* setConfig: the file becomes { ...getConfig(), ...updates }
setConfig(file, updates) ==
    File("json",
         JsonObject(IF updates.apiKey # <<>> THEN updates.apiKey
                    ELSE getConfig(file).apiKey))

\* A JavaScript value in a condition
Truthy(v) == v.type = "string" /\ v.value # ""

\* What a call returned, or that it threw
NotResolved == [threw |-> FALSE, returned |-> FALSE, value |-> Undefined]
Returns(v) == [threw |-> FALSE, returned |-> TRUE, value |-> v]
ThrowsTypeError == [threw |-> TRUE, returned |-> FALSE, value |-> Undefined]

\* resolveApiKey: flagValue || process.env.SPECWAY_API_KEY || getConfig().apiKey
resolveApiKey(flag, environment, file) ==
    IF Truthy(flag) THEN Returns(flag)
    ELSE IF Truthy(environment) THEN Returns(environment)
    ELSE IF getConfig(file).type = "null" THEN ThrowsTypeError
    ELSE IF getConfig(file).apiKey = <<>> THEN Returns(Undefined)
    ELSE Returns(Str(getConfig(file).apiKey[1]))

\* setConfig({ apiKey }): a key is stored in the config file
SetConfig ==
    /\ pc = "config"
    /\ \E key \in {"sk_login"} :
          configFile' = setConfig(configFile, [apiKey |-> <<key>>])
    /\ pc' = "stored"
    /\ UNCHANGED <<flagValue, env, apiKey, coreVars, parseVars, cmdVars,
                   serverVars>>

\* The publish command resolves the key
ResolveApiKey ==
    /\ pc \in {"config", "stored"}
    /\ apiKey' = resolveApiKey(flagValue, env, configFile)
    /\ pc' = "done"
    /\ UNCHANGED <<flagValue, env, configFile, coreVars, parseVars, cmdVars,
                   serverVars>>

-----------------------------------------------------------------------------
(* preview-server.ts: startPreviewServer *)

\* No save of the watched file so far
NoChanges == [pending |-> 0, saved |-> 0]

\* The SSE connections a run can open
Connections == {"c1", "c2"}

\* JSON.stringify of the document a spec file holds
Stringify(value) == "{\"info\":{\"title\":\"" \o value \o "\"}}"

\* loadSpecJson: JSON.parse, then parseYaml, then JSON.stringify; it throws
\* for a file that cannot be read or parsed
loadSpecJson(file) ==
    IF file.kind \in {"json", "yaml"}
    THEN [threw |-> FALSE, value |-> Stringify(file.value[1])]
    ELSE [threw |-> TRUE, value |-> ""]

\* The event written to a client on reload
ReloadEvent(json) == "event: reload\ndata: " \o json \o "\n\n"

\* The comment written when an SSE connection is accepted
Hello == ":\n\n"

\* buildHtml: the page embeds the spec
buildHtml(json) == "<!DOCTYPE html><script>var spec = " \o json \o ";</script>"

\* Mutant: the close handler leaves the response in the Set
OnCloseKeeps(set, c) == set

\* req.on('close', () => clients.delete(res))
OnClose(set, c) == set \ {c}

\* specJson after the change handler: replaced only when the load returned
Reloaded(json, loaded) == IF loaded.threw THEN json ELSE loaded.value

\* GET /__sse: the response is kept and greeted
Connect(c) ==
    /\ pc = "serving"
    /\ connections[c] = "none"
    /\ connections' = [connections EXCEPT ![c] = "open"]
    /\ sent' = [sent EXCEPT ![c] = Append(@, Hello)]
    /\ clients' = clients \cup {c}
    /\ UNCHANGED <<pc, disk, watcher, specJson, served, coreVars, parseVars,
                   cmdVars, keyVars>>

\* The request of an SSE connection closes
Close(c) ==
    /\ pc = "serving"
    /\ connections[c] = "open"
    /\ connections' = [connections EXCEPT ![c] = "closed"]
    /\ clients' = OnClose(clients, c)
    /\ UNCHANGED <<pc, disk, watcher, specJson, sent, served, coreVars,
                   parseVars, cmdVars, keyVars>>

\* Any other request: the page with the current spec
Page ==
    /\ pc = "serving"
    /\ Len(served) < MaxPages
    /\ served' = Append(served, buildHtml(specJson))
    /\ UNCHANGED <<pc, disk, watcher, specJson, connections, clients, sent,
                   coreVars, parseVars, cmdVars, keyVars>>

\* The spec file is saved with new content; the watcher will report it
Save(file) ==
    /\ pc = "serving"
    /\ watcher.saved < MaxChanges
    /\ file # disk
    /\ disk' = file
    /\ watcher' = [pending |-> watcher.pending + 1, saved |-> watcher.saved + 1]
    /\ UNCHANGED <<pc, specJson, connections, clients, sent, served, coreVars,
                   parseVars, cmdVars, keyVars>>

\* watcher.on('change'): reload, and on success notify every client
Change ==
    /\ pc = "serving"
    /\ watcher.pending > 0
    /\ watcher' = [watcher EXCEPT !.pending = @ - 1]
    /\ LET loaded == loadSpecJson(disk)
       IN  /\ specJson' = Reloaded(specJson, loaded)
           /\ sent' = [c \in Connections |->
                          IF c \in clients /\ ~loaded.threw
                          THEN Append(sent[c], ReloadEvent(loaded.value))
                          ELSE sent[c]]
    /\ UNCHANGED <<pc, disk, connections, clients, served, coreVars,
                   parseVars, cmdVars, keyVars>>

-----------------------------------------------------------------------------
(* Idle values of the state a run does not exercise *)

NoSchema == SchemaNode("undefined", FALSE, <<>>, <<>>, <<>>, FALSE)

NoAuth == ParsedAuth("none", <<>>)

DiffIdle == oldActions = <<>> /\ newActions = <<>> /\ result = NoResult
WalkIdle == graph = <<>> /\ stack = <<>> /\ pushed = <<>>
FlatIdle == schema = NoSchema /\ fields = <<>> /\ WalkIdle
AuthIdle == dialect = "openapi3" /\ schemes = <<>> /\ auth = NoAuth

NoDocument == Document(Undefined, Undefined, <<>>, <<>>, <<>>)

NoBehaviour == [validate |-> Resolves, parse |-> Resolves]

NoOptions == [json |-> FALSE, strict |-> FALSE, breakingOnly |-> FALSE]

ParseIdle ==
    /\ at = [i \in Calls |-> "idle"]
    /\ spec = [i \in Calls |-> NoDocument]
    /\ validator = [i \in Calls |-> NoBehaviour]
    /\ validatedSpec = [i \in Calls |-> NoDocument]
    /\ parseWarnings = [i \in Calls |-> <<>>]
    /\ called = [i \in Calls |-> <<>>]
    /\ parseResult = [i \in Calls |-> Pending]

CommandIdle ==
    /\ opts = NoOptions
    /\ loads = [i \in Calls |-> "ok"]
    /\ exitCode = -1
    /\ summary = NoSummary
    /\ report = NoReport

KeyIdle ==
    /\ flagValue = Undefined
    /\ env = Undefined
    /\ configFile = NoFile
    /\ apiKey = NotResolved

ServerIdle ==
    /\ disk = NoFile
    /\ watcher = NoChanges
    /\ specJson = ""
    /\ connections = [c \in Connections |-> "none"]
    /\ clients = {}
    /\ sent = [c \in Connections |-> <<>>]
    /\ served = <<>>

AuxIdle == KeyIdle /\ ServerIdle

ExtIdle == ParseIdle /\ CommandIdle /\ AuxIdle

-----------------------------------------------------------------------------
(* Inputs of the diff runs *)

Endpoints ==
    {[method |-> "GET", path |-> "/pets/{petId}"],
     [method |-> "DELETE", path |-> "/pets/{petId}"]}

\* Four versions of an operation: bare; with parameters, response and
\* description; the same revised in every compared dimension; and one whose
\* path and query parameter share a name (a parameter is identified by name
\* and location)
Profiles ==
    {[description |-> "", pathParams |-> <<>>, queryParams |-> <<>>,
      bodySchema |-> <<>>, responseSchema |-> <<>>],
     [description |-> "List pets", pathParams |-> <<>>,
      queryParams |-> <<ParsedField("status", "string", FALSE),
                        ParsedField("limit", "number", TRUE)>>,
      bodySchema |-> <<>>,
      responseSchema |-> <<ParsedField("id", "number", TRUE)>>],
     [description |-> "List all pets", pathParams |-> <<>>,
      queryParams |-> <<ParsedField("status", "number", TRUE),
                        ParsedField("species", "string", FALSE)>>,
      bodySchema |-> <<ParsedField("name", "string", TRUE)>>,
      responseSchema |-> <<>>],
     [description |-> "Pet by id",
      pathParams |-> <<ParsedField("petId", "number", TRUE)>>,
      queryParams |-> <<ParsedField("petId", "string", FALSE)>>,
      bodySchema |-> <<>>, responseSchema |-> <<>>]}

DiffActions ==
    {ParsedAction(e.method, e.path, p.description, p.pathParams,
                  p.queryParams, p.bodySchema, p.responseSchema, {}) :
        e \in Endpoints, p \in Profiles}

-----------------------------------------------------------------------------
(* The diff command's core step: diffSpecs(oldActions, newActions) *)

DiffSpecs ==
    /\ pc = "ready"
    /\ result' = diffSpecs(oldActions, newActions)
    /\ pc' = "done"
    /\ UNCHANGED <<oldActions, newActions, flatVars, authVars, extVars>>

InitDiff ==
    /\ pc = "ready"
    /\ oldActions \in SeqUpTo(DiffActions, MaxActions)
    /\ newActions \in SeqUpTo(DiffActions, MaxActions)
    /\ result = NoResult
    /\ FlatIdle /\ AuthIdle /\ ExtIdle

NextDiff == DiffSpecs

SpecDiff == InitDiff /\ [][NextDiff]_vars


-----------------------------------------------------------------------------
(* Properties of diffSpecs over action lists (SpecDiff) *)

Done == pc = "done"

ChangeIdx == 1..Len(result.changes)

KeysOf(actions) == {ActionKey(actions[i]) : i \in 1..Len(actions)}

ChangeKey(c) == c.method \o " " \o c.path

\* C1: diffSpecs(A, A) returns no change and both counts 0, for every
\* action list A.
C1_SelfDiffEmpty ==
    (Done /\ oldActions = newActions) =>
        /\ ~result.threw
        /\ result.changes = <<>>
        /\ result.breakingCount = 0
        /\ result.nonBreakingCount = 0

\* C2: each key of old missing from new has exactly one breaking
\* endpoint-removed change with its method and path, each key of new missing
\* from old exactly one non-breaking endpoint-added change, and no other key
\* has an endpoint-removed or endpoint-added change.
C2_RemovedAddedExactlyOnce ==
    Done =>
        LET removedKeys == KeysOf(oldActions) \ KeysOf(newActions)
            addedKeys == KeysOf(newActions) \ KeysOf(oldActions)
            hits(k, cat) == {i \in ChangeIdx :
                                /\ result.changes[i].category = cat
                                /\ ChangeKey(result.changes[i]) = k}
        IN  /\ ~result.threw
            /\ \A k \in removedKeys :
                  /\ Cardinality(hits(k, "endpoint-removed")) = 1
                  /\ \A i \in hits(k, "endpoint-removed") :
                        result.changes[i].type = "breaking"
            /\ \A k \in addedKeys :
                  /\ Cardinality(hits(k, "endpoint-added")) = 1
                  /\ \A i \in hits(k, "endpoint-added") :
                        result.changes[i].type = "non-breaking"
            /\ \A i \in ChangeIdx :
                  /\ result.changes[i].category = "endpoint-removed"
                        => ChangeKey(result.changes[i]) \in removedKeys
                  /\ result.changes[i].category = "endpoint-added"
                        => ChangeKey(result.changes[i]) \in addedKeys

\* A removed and an added endpoint, the removed one listed twice in old
C2_Witness ==
    /\ Done
    /\ Len(oldActions) = 2
    /\ ActionKey(oldActions[1]) = ActionKey(oldActions[2])
    /\ oldActions[1] # oldActions[2]
    /\ Len(newActions) = 1
    /\ ActionKey(newActions[1]) # ActionKey(oldActions[1])
    /\ Len(result.changes) = 2

PhaseRank(c) ==
    CASE c.category = "endpoint-removed" -> 0
      [] c.category = "endpoint-added" -> 1
      [] OTHER -> 2

SubRank(c) ==
    CASE c.category = "required-param-added" -> 1
      [] c.category = "optional-param-added" -> 2
      [] c.category = "param-removed" -> 3
      [] c.category = "param-type-changed" -> 4
      [] c.category = "required-body-field-added" -> 5
      [] c.category = "response-field-removed" -> 6
      [] c.category = "description-changed" -> 7
      [] OTHER -> 0

\* C8: in the changes list every endpoint-removed change precedes every
\* endpoint-added change, which precedes every per-endpoint change; the
\* per-endpoint changes of one endpoint are contiguous and ordered
\* required-param-added, optional-param-added, param-removed,
\* param-type-changed, required-body-field-added, response-field-removed,
\* description-changed.
C8_ChangeOrder ==
    Done =>
        LET ch == result.changes
        IN  /\ \A i, j \in ChangeIdx :
                  i < j => PhaseRank(ch[i]) <= PhaseRank(ch[j])
            /\ \A i, j \in ChangeIdx :
                  (/\ i < j
                   /\ PhaseRank(ch[i]) = 2
                   /\ ChangeKey(ch[i]) = ChangeKey(ch[j]))
                  => /\ SubRank(ch[i]) <= SubRank(ch[j])
                     /\ \A m \in i..j : ChangeKey(ch[m]) = ChangeKey(ch[i])

\* Two endpoints changed in all seven per-endpoint categories
C8_Witness ==
    /\ Done
    /\ \A e \in Endpoints : \A r \in 1..7 :
          \E i \in ChangeIdx :
              /\ SubRank(result.changes[i]) = r
              /\ result.changes[i].method = e.method
              /\ result.changes[i].path = e.path

\* C9: breakingCount is the number of changes of type breaking,
\* nonBreakingCount the number of type non-breaking, and they add up to the
\* length of changes.
C9_CountsTally ==
    Done =>
        /\ result.breakingCount =
              Cardinality({i \in ChangeIdx : result.changes[i].type = "breaking"})
        /\ result.nonBreakingCount =
              Cardinality({i \in ChangeIdx :
                              result.changes[i].type = "non-breaking"})
        /\ result.breakingCount + result.nonBreakingCount = Len(result.changes)

\* Both kinds of change counted in one result
C9_Witness ==
    /\ Done
    /\ result.breakingCount >= 2
    /\ result.nonBreakingCount >= 2

-----------------------------------------------------------------------------
(* Lists that name an endpoint more than once (SpecRepeat) *)

RepeatActions ==
    {a \in DiffActions : a.description \in {"List pets", "List all pets"}}

InitRepeat ==
    /\ pc = "ready"
    /\ oldActions \in SeqUpTo(RepeatActions, MaxActions)
    /\ newActions \in SeqUpTo(RepeatActions, MaxActions + 1)
    /\ result = NoResult
    /\ FlatIdle /\ AuthIdle /\ ExtIdle

SpecRepeat == InitRepeat /\ [][NextDiff]_vars

\* The list without every action that a later action of the same
\* (method, path) follows
RECURSIVE WithoutEarlier(_)
WithoutEarlier(actions) ==
    IF actions = <<>> THEN <<>>
    ELSE IF \E j \in 2..Len(actions) :
                ActionKey(actions[j]) = ActionKey(Head(actions))
    THEN WithoutEarlier(Tail(actions))
    ELSE <<Head(actions)>> \o WithoutEarlier(Tail(actions))

Occurrences(s, x) == Cardinality({i \in 1..Len(s) : s[i] = x})

\* The same changes, each as many times, in any order
SameChanges(s, t) ==
    /\ Len(s) = Len(t)
    /\ \A c \in Range(s) \cup Range(t) : Occurrences(s, c) = Occurrences(t, c)

HasEarlier(actions) == WithoutEarlier(actions) # actions

\* C25: when a list holds several actions with one (method, path), the
\* result is the result for the lists with every earlier such action deleted,
\* up to the order of the changes: only the last action of a key is compared.
C25_LastActionWins ==
    (Done /\ (HasEarlier(oldActions) \/ HasEarlier(newActions))) =>
        LET last == diffSpecs(WithoutEarlier(oldActions),
                              WithoutEarlier(newActions))
        IN  /\ ~result.threw
            /\ SameChanges(result.changes, last.changes)
            /\ result.breakingCount = last.breakingCount
            /\ result.nonBreakingCount = last.nonBreakingCount

\* Both endpoints changed, the first of them listed again at the end of new
\* with other parameters: the changes are those against its last action, in
\* the order of the first
C25_Witness ==
    /\ Done
    /\ Len(newActions) = 3
    /\ ActionKey(newActions[1]) = ActionKey(newActions[3])
    /\ ActionKey(newActions[1]) # ActionKey(newActions[2])
    /\ KeysOf(oldActions) = KeysOf(newActions)
    /\ LET last == diffSpecs(oldActions, <<newActions[2], newActions[3]>>)
           first == diffSpecs(oldActions, <<newActions[1], newActions[2]>>)
       IN  /\ SameChanges(result.changes, last.changes)
           /\ result.changes # last.changes
           /\ ~SameChanges(result.changes, first.changes)

ChangeCategories ==
    {"endpoint-removed", "endpoint-added", "required-param-added",
     "optional-param-added", "param-removed", "param-type-changed",
     "required-body-field-added", "response-field-removed",
     "description-changed"}

NonBreakingCategories ==
    {"endpoint-added", "optional-param-added", "description-changed"}

CategoriesOf(changes) == {changes[i].category : i \in 1..Len(changes)}

\* C26: every change has one of the nine categories, and its type follows
\* from the category: endpoint-added, optional-param-added and
\* description-changed are non-breaking, the other six breaking.
C26_CategoryDecidesType ==
    Done =>
        \A i \in ChangeIdx :
            /\ result.changes[i].category \in ChangeCategories
            /\ result.changes[i].type =
                  IF result.changes[i].category \in NonBreakingCategories
                  THEN "non-breaking" ELSE "breaking"

\* A removed endpoint next to one changed in all seven per-endpoint
\* categories: eight categories and both types in one result
C26_Witness ==
    /\ Done
    /\ CategoriesOf(result.changes) = ChangeCategories \ {"endpoint-added"}
    /\ result.breakingCount >= 6
    /\ result.nonBreakingCount >= 2


-----------------------------------------------------------------------------
(* One endpoint in both versions, its parameters varied (SpecCompare) *)

ParamKeys == {"status", "petId"}

QueryFields == {ParsedField(k, "string", r) : k \in ParamKeys, r \in BOOLEAN}

\* A declared path parameter is always required
PathParamLists ==
    {<<>>} \cup {<<ParsedField("petId", t, TRUE)>> : t \in {"string", "number"}}

PetById(pp, qp) ==
    ParsedAction("GET", "/pets/{petId}", "Pet by id", pp, qp, <<>>, <<>>, {})

CompareActions ==
    {PetById(pp, qp) : pp \in PathParamLists,
                       qp \in SeqUpTo(QueryFields, MaxParams)}

DeletePet ==
    ParsedAction("DELETE", "/pets/{petId}", "Delete a pet", <<>>, <<>>,
                 <<>>, <<>>, {})

InitCompare ==
    /\ pc = "ready"
    /\ \E a \in CompareActions : oldActions \in {<<a>>, <<a, DeletePet>>}
    /\ \E b \in CompareActions : newActions = <<b>>
    /\ result = NoResult
    /\ FlatIdle /\ AuthIdle /\ ExtIdle

SpecCompare == InitCompare /\ [][NextDiff]_vars


oldEndpoint == oldActions[1]
newEndpoint == newActions[1]

Quoted(k) == "\"" \o k \o "\""

\* Entries of the new path+query parameters with key k and the given flag
NewEntries(k, req) ==
    {i \in 1..Len(AllParams(newEndpoint)) :
        /\ AllParams(newEndpoint)[i].key = k
        /\ AllParams(newEndpoint)[i].required = req}

\* Changes of the compared endpoint with the given type and category whose
\* message contains the quoted key
Naming(k, t, cat) ==
    {i \in ChangeIdx :
        /\ result.changes[i].type = t
        /\ result.changes[i].category = cat
        /\ ChangeKey(result.changes[i]) = ActionKey(newEndpoint)
        /\ Includes(result.changes[i].message, Quoted(k))}

RequiredAndNew(k) ==
    /\ NewEntries(k, TRUE) # {}
    /\ k \notin Keys(AllParams(oldEndpoint))

OptionalAndNew(k) ==
    /\ NewEntries(k, FALSE) # {}
    /\ NewEntries(k, TRUE) = {}
    /\ k \notin Keys(AllParams(oldEndpoint))

EndpointAlsoRemoved == Len(oldActions) = 2

\* C3 as stated: each key required in new and absent from old has exactly
\* one breaking required-param-added change whose message contains the key,
\* and breakingCount >= 2 when an endpoint is also removed.
C3_OneChangePerRequiredKey ==
    Done =>
        \A k \in ParamKeys :
            RequiredAndNew(k) =>
                /\ Cardinality(Naming(k, "breaking", "required-param-added")) = 1
                /\ EndpointAlsoRemoved => result.breakingCount >= 2

\* C3 amended: each key required in new and absent from old has one breaking
\* required-param-added change whose message contains the key per required
\* entry of that key in the new path+query parameters (two when the key is
\* declared as a query and as a path parameter), and breakingCount >= 2 when
\* an endpoint is also removed.
C3_OneChangePerRequiredEntry ==
    Done =>
        \A k \in ParamKeys :
            RequiredAndNew(k) =>
                /\ Cardinality(Naming(k, "breaking", "required-param-added"))
                      = Cardinality(NewEntries(k, TRUE))
                /\ EndpointAlsoRemoved => result.breakingCount >= 2

\* A key added as required once while another endpoint is removed
C3_Witness ==
    /\ Done
    /\ EndpointAlsoRemoved
    /\ RequiredAndNew("status")
    /\ Cardinality(NewEntries("status", TRUE)) = 1
    /\ Cardinality(Naming("status", "breaking", "required-param-added")) = 1
    /\ result.breakingCount >= 2

ParamBreakingCategories ==
    {"required-param-added", "param-removed", "param-type-changed"}

\* C4 as stated: each key not required in new and absent from old has
\* exactly one non-breaking optional-param-added change whose message
\* contains the key, and no breaking change.
C4_OneChangePerOptionalKey ==
    Done =>
        \A k \in ParamKeys :
            OptionalAndNew(k) =>
                /\ Cardinality(Naming(k, "non-breaking", "optional-param-added")) = 1
                /\ \A cat \in ParamBreakingCategories \cup {"optional-param-added"} :
                      Naming(k, "breaking", cat) = {}

\* C4 amended: each key not required in new and absent from old has one
\* non-breaking optional-param-added change whose message contains the key
\* per entry of that key in the new path+query parameters, and no breaking
\* change.
C4_OneChangePerOptionalEntry ==
    Done =>
        \A k \in ParamKeys :
            OptionalAndNew(k) =>
                /\ Cardinality(Naming(k, "non-breaking", "optional-param-added"))
                      = Cardinality(NewEntries(k, FALSE))
                /\ \A cat \in ParamBreakingCategories \cup {"optional-param-added"} :
                      Naming(k, "breaking", cat) = {}

\* An optional key added once next to a required one
C4_Witness ==
    /\ Done
    /\ OptionalAndNew("status")
    /\ Cardinality(NewEntries("status", FALSE)) = 1
    /\ RequiredAndNew("petId")
    /\ Cardinality(Naming("status", "non-breaking", "optional-param-added")) = 1

-----------------------------------------------------------------------------
(* A parameter that changes its required flag (SpecCompare) *)

\* Entries of the old path+query parameters with key k and the given flag
OldEntries(k, req) ==
    {i \in 1..Len(AllParams(oldEndpoint)) :
        /\ AllParams(oldEndpoint)[i].key = k
        /\ AllParams(oldEndpoint)[i].required = req}

\* Changes of the compared endpoint with the given category whose message
\* contains the quoted key, of either type
Mentioning(k, cat) ==
    Naming(k, "breaking", cat) \cup Naming(k, "non-breaking", cat)

\* Changes of the compared endpoint whose message contains the quoted key
AnyMentioning(k) == UNION {Mentioning(k, cat) : cat \in ChangeCategories}

\* The change diffSpecs reports for key k when it is a brand-new required
\* parameter of the endpoint
BrandNewRequired(k) ==
    diffSpecs(<<PetById(<<>>, <<>>)>>,
              <<PetById(<<>>, <<ParsedField(k, "string", TRUE)>>)>>).changes[1]

BecameRequired(k) ==
    /\ OldEntries(k, FALSE) # {}
    /\ OldEntries(k, TRUE) = {}
    /\ NewEntries(k, TRUE) # {}

BecameOptional(k) ==
    /\ OldEntries(k, TRUE) # {}
    /\ NewEntries(k, FALSE) # {}
    /\ NewEntries(k, TRUE) = {}

ParamTypes == {"string", "number"}

TypesOf(a, k) ==
    {AllParams(a)[i].type : i \in {j \in 1..Len(AllParams(a)) :
                                      AllParams(a)[j].key = k}}

\* C27 as stated: a key optional in old and required in new has exactly one
\* breaking required-param-added change, equal in category and message to
\* the change for a brand-new required parameter, no optional-param-added
\* and no param-removed change; a key required in old and optional in new
\* has no change.
C27_OneChangeWhenRequired ==
    Done =>
        \A k \in ParamKeys :
            /\ BecameRequired(k) =>
                  /\ Cardinality(Naming(k, "breaking", "required-param-added")) = 1
                  /\ \A i \in Mentioning(k, "required-param-added") :
                        /\ result.changes[i].category = BrandNewRequired(k).category
                        /\ result.changes[i].message = BrandNewRequired(k).message
                  /\ Mentioning(k, "optional-param-added") = {}
                  /\ Mentioning(k, "param-removed") = {}
            /\ BecameOptional(k) => AnyMentioning(k) = {}

\* C27 amended: a key optional in old and required in new has one breaking
\* required-param-added change per required entry of the key in the new
\* path+query parameters, each equal in category and message to the change
\* for a brand-new required parameter, no optional-param-added and no
\* param-removed change; a key required in old and optional in new has no
\* required-param-added, optional-param-added or param-removed change, and
\* no change at all when its declared types are the same in old and new.
C27_OneChangePerRequiredEntry ==
    Done =>
        \A k \in ParamKeys :
            /\ BecameRequired(k) =>
                  /\ Cardinality(Naming(k, "breaking", "required-param-added"))
                        = Cardinality(NewEntries(k, TRUE))
                  /\ \A i \in Mentioning(k, "required-param-added") :
                        /\ result.changes[i].type = "breaking"
                        /\ result.changes[i].category = BrandNewRequired(k).category
                        /\ result.changes[i].message = BrandNewRequired(k).message
                  /\ Mentioning(k, "optional-param-added") = {}
                  /\ Mentioning(k, "param-removed") = {}
            /\ BecameOptional(k) =>
                  /\ AnyMentioning(k) = Mentioning(k, "param-type-changed")
                  /\ (\E t \in ParamTypes : TypesOf(oldEndpoint, k) = {t}
                                            /\ TypesOf(newEndpoint, k) = {t})
                        => AnyMentioning(k) = {}

\* status turns required while petId turns optional: the one change is the
\* required-param-added change of status
C27_Witness ==
    /\ Done
    /\ BecameRequired("status")
    /\ Cardinality(NewEntries("status", TRUE)) = 1
    /\ BecameOptional("petId")
    /\ result.changes = <<BrandNewRequired("status")>>
    /\ result.breakingCount = 1

-----------------------------------------------------------------------------
(* Removed parameters and changed parameter types (SpecCompare) *)

WithCategory(cat) == {i \in ChangeIdx : result.changes[i].category = cat}

RemovedKeys == Keys(AllParams(oldEndpoint)) \ Keys(AllParams(newEndpoint))

\* k is a path parameter on one side and a query parameter on the other
Moved(k) ==
    \/ /\ k \in Keys(oldEndpoint.pathParams) \ Keys(oldEndpoint.queryParams)
       /\ k \in Keys(newEndpoint.queryParams) \ Keys(newEndpoint.pathParams)
    \/ /\ k \in Keys(oldEndpoint.queryParams) \ Keys(oldEndpoint.pathParams)
       /\ k \in Keys(newEndpoint.pathParams) \ Keys(newEndpoint.queryParams)

\* C28: each key among the old path+query parameters and among none of the
\* new ones has exactly one breaking param-removed change naming it, and no
\* param-removed change names a key still present in new, a key that moved
\* between path and query included.
C28_RemovedOncePerKey ==
    Done =>
        /\ \A k \in RemovedKeys :
              /\ Cardinality(Naming(k, "breaking", "param-removed")) = 1
              /\ Naming(k, "non-breaking", "param-removed") = {}
        /\ \A k \in ParamKeys \ RemovedKeys : Mentioning(k, "param-removed") = {}
        /\ Cardinality(WithCategory("param-removed")) = Cardinality(RemovedKeys)

\* status, declared twice in old, is gone while petId moved from the path to
\* the query: one param-removed change
C28_Witness ==
    /\ Done
    /\ Cardinality(OldEntries("status", TRUE) \cup OldEntries("status", FALSE)) = 2
    /\ RemovedKeys = {"status"}
    /\ Moved("petId")
    /\ Cardinality(WithCategory("param-removed")) = 1
    /\ Cardinality(Naming("status", "breaking", "param-removed")) = 1

\* The declared types of key k differ between old and new
TypesDiffer(k) ==
    /\ k \in Keys(AllParams(oldEndpoint)) \cap Keys(AllParams(newEndpoint))
    /\ TypesOf(oldEndpoint, k) # TypesOf(newEndpoint, k)

\* C29: a param-type-changed change is emitted for a key if and only if the
\* key is among the old and among the new path+query parameters with
\* differing declared types; the change is breaking and its message names
\* the key, the old type and the new type.
C29_TypeChangedIff ==
    Done =>
        \A k \in ParamKeys :
            /\ Mentioning(k, "param-type-changed") # {} <=> TypesDiffer(k)
            /\ \A i \in Mentioning(k, "param-type-changed") :
                  /\ result.changes[i].type = "breaking"
                  /\ \E ot \in TypesOf(oldEndpoint, k),
                        nt \in TypesOf(newEndpoint, k) :
                        /\ ot # nt
                        /\ result.changes[i].message =
                              "Parameter type changed: " \o Quoted(k) \o " "
                                  \o ot \o " -> " \o nt \o " on "
                                  \o ActionKey(newEndpoint)

-----------------------------------------------------------------------------
(* Actions that lack some of their field lists (SpecMalformed) *)

MalformedActions ==
    {ParsedAction(e.method, e.path, "List pets", <<>>,
                  <<ParsedField("status", "string", FALSE)>>, <<>>,
                  <<ParsedField("id", "number", TRUE)>>, abs) :
        e \in Endpoints, abs \in SUBSET ListNames}

InitMalformed ==
    /\ pc = "ready"
    /\ \E a \in MalformedActions : oldActions = <<a>>
    /\ \E b \in MalformedActions : newActions = <<b>>
    /\ result = NoResult
    /\ FlatIdle /\ AuthIdle /\ ExtIdle

SpecMalformed == InitMalformed /\ [][NextDiff]_vars

\* C10: diffSpecs never throws; an action's absent query-parameter,
\* path-parameter, body or response list is treated as empty and a normal
\* result is returned.
C10_NeverThrows ==
    Done => ~result.threw


-----------------------------------------------------------------------------
(* Schema conversion runs (SpecFlatten) *)

SchemaTypes ==
    {"string", "number", "integer", "boolean", "array", "object", "null",
     "undefined"}

\* Property names by object nesting level
KeyNames == <<"a", "b", "c", "d", "e", "f", "g">>

Leaf(t) == SchemaNode(t, FALSE, <<>>, <<>>, <<>>, FALSE)

RefNode == SchemaNode("undefined", FALSE, <<>>, <<>>, <<>>, TRUE)

ObjectOf(k, s, req) == SchemaNode("object", TRUE, <<Property(k, s)>>, req, <<>>, FALSE)

ArrayOf(s) == SchemaNode("array", FALSE, <<>>, <<>>, <<s>>, FALSE)

\* The schemas nested at most n deep whose outermost properties sit at
\* object level l
RECURSIVE Schemas(_, _)
Schemas(l, n) ==
    LET leaves == {Leaf(t) : t \in SchemaTypes} \cup {RefNode}
    IN  IF n = 0 THEN leaves
        ELSE leaves
             \cup {ObjectOf(KeyNames[l], s, req) :
                      s \in Schemas(l + 1, n - 1),
                      req \in {<<>>, <<KeyNames[l]>>}}
             \cup {ArrayOf(s) : s \in Schemas(l, n - 1)}

\* A body or response schema is flattened from depth 0
SchemaToFields ==
    /\ pc = "ready"
    /\ fields' = schemaToFields(schema, 0)
    /\ pc' = "done"
    /\ UNCHANGED <<schema, walkVars, diffVars, authVars, extVars>>

\* An OpenAPI 3 parameter whose schema is the node at hand
ParamToFieldV3 ==
    /\ pc = "ready"
    /\ \E r \in BOOLEAN, declared \in BOOLEAN :
          fields' = paramToFieldV3(
                        [name |-> "petId", required |-> r,
                         schema |-> IF declared THEN <<schema>> ELSE <<>>])
    /\ pc' = "param"
    /\ UNCHANGED <<schema, walkVars, diffVars, authVars, extVars>>

\* A Swagger 2 parameter whose declared type is that of the node at hand
ParamToFieldV2 ==
    /\ pc = "ready"
    /\ \E r \in BOOLEAN, inBody \in BOOLEAN :
          fields' = paramToFieldV2(
                        [name |-> "petId", required |-> r,
                         type |-> schema.type,
                         schema |-> IF inBody THEN <<schema>> ELSE <<>>])
    /\ pc' = "param"
    /\ UNCHANGED <<schema, walkVars, diffVars, authVars, extVars>>

InitFlatten ==
    /\ pc = "ready"
    /\ schema \in Schemas(1, MaxNesting)
    /\ fields = <<>>
    /\ WalkIdle
    /\ DiffIdle /\ AuthIdle /\ ExtIdle

NextFlatten == SchemaToFields \/ ParamToFieldV3 \/ ParamToFieldV2

SpecFlatten == InitFlatten /\ [][NextFlatten]_vars

Flattened == pc = "done"

\* Every field of a field list, at whatever nesting
RECURSIVE AllFields(_)
AllFields(fs) ==
    UNION {{fs[i]}
           \cup (IF fs[i].hasProperties THEN AllFields(fs[i].properties) ELSE {})
           \cup (IF fs[i].hasItems THEN AllFields(fs[i].items) ELSE {}) :
           i \in 1..Len(fs)}

\* {type: object, properties: {a: {type: object, properties: {b: {type:
\* object, properties: {c: inner}}}}}}
ThreeDeep(inner) ==
    ObjectOf("a", ObjectOf("b", ObjectOf("c", inner, <<>>), <<>>), <<>>)

\* The field list attached to b in the result
FieldsOfB == fields[1].properties[1].properties

\* C5 as stated: flattening a: {b: {c: string}} from depth 0 gives a result
\* in which field c appears nowhere; the field list attached to b is empty.
C5_FieldCDropped ==
    (Flattened /\ schema = ThreeDeep(Leaf("string"))) =>
        /\ \A f \in AllFields(fields) : f.key # "c"
        /\ FieldsOfB = <<>>

\* C5 amended: flattening a: {b: {c: string}} from depth 0 keeps field c as
\* the one string field of the list attached to b; the first empty field list
\* is that of the 3rd nested level: with c an object declaring property d,
\* the list attached to c is empty and d appears nowhere.
C5_FieldCKept ==
    /\ (Flattened /\ schema = ThreeDeep(Leaf("string"))) =>
          /\ Len(fields) = 1 /\ fields[1].key = "a"
          /\ Len(fields[1].properties) = 1 /\ fields[1].properties[1].key = "b"
          /\ Len(FieldsOfB) = 1
          /\ FieldsOfB[1].key = "c"
          /\ FieldsOfB[1].type = "string"
          /\ ~FieldsOfB[1].hasProperties
    /\ (Flattened /\ schema = ThreeDeep(ObjectOf("d", Leaf("string"), <<>>))) =>
          /\ Len(FieldsOfB) = 1
          /\ FieldsOfB[1].key = "c"
          /\ FieldsOfB[1].hasProperties
          /\ FieldsOfB[1].properties = <<>>
          /\ \A f \in AllFields(fields) : f.key # "d"

C5_Witness ==
    /\ Flattened
    /\ schema = ThreeDeep(Leaf("string"))
    /\ Len(fields) = 1

FieldTypes == {"string", "number", "boolean", "array", "object"}

\* The mapping the type rule is documented to compute
DocumentedType(t) ==
    IF t \in {"string", "boolean", "array", "object"} THEN t
    ELSE IF t \in {"number", "integer"} THEN "number"
    ELSE "string"

\* C6: the type rule maps string to string, number and integer to number,
\* boolean to boolean, array to array, object to object and anything else,
\* undefined included, to string; every type of a field built by the
\* parameter extractors and the flattener is one of the five values.
C6_TypeMapping ==
    /\ pc \in {"done", "param"} =>
          \A f \in AllFields(fields) : f.type \in FieldTypes
    /\ (pc = "param" /\ fields # <<>>) =>
          fields[1].type = DocumentedType(schema.type)
    /\ (/\ Flattened
        /\ schema.type = "object" /\ schema.hasProperties
        /\ fields # <<>>) =>
          fields[1].type = DocumentedType(schema.properties[1].schema.type)

\* An integer parameter and an untyped property, both converted
C6_Witness ==
    \/ pc = "param" /\ fields # <<>> /\ schema.type = "integer"
          /\ fields[1].type = "number"
    \/ Flattened /\ fields # <<>> /\ schema.type = "object"
          /\ schema.properties[1].schema.type = "undefined"
          /\ fields[1].type = "string"

\* The field lists nested directly in a field: its properties, and the
\* properties of its synthetic item field
NestedLists(f) ==
    (IF f.hasProperties THEN {f.properties} ELSE {})
    \cup (IF f.hasItems /\ f.items[1].hasProperties
          THEN {f.items[1].properties} ELSE {})

\* The fields lying exactly n nested field lists below the fields of fs
RECURSIVE FieldsBelow(_, _)
FieldsBelow(fs, n) ==
    IF n = 0 THEN Range(fs)
    ELSE UNION {UNION {FieldsBelow(l, n - 1) : l \in NestedLists(fs[i])} :
                i \in 1..Len(fs)}

\* Object nesting of a schema: the longest chain of object properties
RECURSIVE ObjectLevels(_)
ObjectLevels(node) ==
    IF node.type = "object" /\ node.hasProperties /\ node.properties # <<>>
    THEN 1 + ObjectLevels(node.properties[1].schema)
    ELSE IF node.type = "array" /\ node.items # <<>>
    THEN ObjectLevels(node.items[1])
    ELSE 0

\* C22: a call of schemaToFields at a depth greater than 2 returns the empty
\* list, and in the list returned by a call at depth 0 no field lies more
\* than two nested field lists (properties, or items.properties) below a
\* top-level field, however deep the input schema is.
C22_NestingBound ==
    /\ \A d \in 3..(MaxNesting + 1) : schemaToFields(schema, d) = <<>>
    /\ Flattened => \A n \in 3..(MaxNesting + 1) : FieldsBelow(fields, n) = {}

\* A schema four object levels deep was flattened, and fields lie two lists
\* below the top-level field
C22_Witness ==
    /\ Flattened
    /\ ObjectLevels(schema) >= 4
    /\ FieldsBelow(fields, 2) # {}
    /\ FieldsBelow(fields, 3) = {}

-----------------------------------------------------------------------------
(* schemaToFields call by call over the schema objects of a dereferenced   *)
(* document, where an object may be reached from itself (SpecWalk)         *)

NodeIds == {1, 2}

\* A schema object whose properties and items are references to objects
GraphNode(t, props, its) == [type |-> t, properties |-> props, items |-> its]

GraphNodes ==
    {GraphNode("object", props, <<>>) :
        props \in SeqUpTo(NodeIds, Cardinality(NodeIds))}
    \cup {GraphNode("array", <<>>, its) :
            its \in {<<>>} \cup {<<n>> : n \in NodeIds}}
    \cup {GraphNode("string", <<>>, <<>>)}

PropertyKeys == <<"a", "b">>

\* One call in progress: its schema and depth arguments, where it stands,
\* the property its loop is at, its fields array (or the list it is about
\* to return) and the call expression it waits in
Frame(n, d) ==
    [node |-> n, depth |-> d, phase |-> "enter", next |-> 0,
     fields |-> <<>>, site |-> "none"]

\* Mutant: only the object branch lies inside the try
InTryObjectOnly(site) == site # "array"

\* Both the property loop and the array branch lie inside the try
InTry(site) == site \in {"properties", "items", "array"}

Top == stack[Len(stack)]

WithTop(f) == [stack EXCEPT ![Len(stack)] = f]

\* The engine refuses one more call
StackExhausted == Len(stack) >= MaxStack

\* A call made by the top frame in the given call expression: the callee is
\* entered, or the call raises RangeError where it stands
Call(n, d, site) ==
    IF StackExhausted
    THEN stack' = WithTop([Top EXCEPT
                              !.phase = IF InTry(site) THEN "catch" ELSE "throw",
                              !.site = site])
    ELSE stack' = Append(WithTop([Top EXCEPT !.site = site]), Frame(n, d))

\* return value from the top frame
Returning(value) == WithTop([Top EXCEPT !.phase = "return", !.fields = value])

\* The field of the property the loop of frame f is at, nested being what
\* the nested call made in the given call expression returned, if one was made
WalkField(f, site, nested) ==
    LET prop == graph[graph[f.node].properties[f.next]]
        plain == Field(PropertyKeys[f.next], schemaTypeToFieldType(prop.type),
                       FALSE, FALSE, <<>>, FALSE, <<>>)
    IN  IF site = "properties"
        THEN [plain EXCEPT !.hasProperties = TRUE, !.properties = nested]
        ELSE IF prop.type = "array" /\ prop.items # <<>>
        THEN [plain EXCEPT
                 !.hasItems = TRUE,
                 !.items = <<Field("item",
                                   schemaTypeToFieldType(graph[prop.items[1]].type),
                                   FALSE, site = "items",
                                   IF site = "items" THEN nested ELSE <<>>,
                                   FALSE, <<>>)>>]
        ELSE plain

StartWalk ==
    /\ pc = "ready"
    /\ stack' = <<Frame(1, 0)>>
    /\ pc' = "running"
    /\ UNCHANGED <<schema, fields, graph, pushed, diffVars, authVars, extVars>>

\* The body of a call up to its first nested call or return
Enter ==
    /\ pc = "running"
    /\ Top.phase = "enter"
    /\ LET node == graph[Top.node]
       IN  IF TooDeep(Top.depth) THEN stack' = Returning(<<>>)
           ELSE IF node.type = "object"
           THEN stack' = WithTop([Top EXCEPT !.phase = "loop", !.next = 1])
           ELSE IF node.type = "array" /\ node.items # <<>>
           THEN Call(node.items[1], Top.depth, "array")
           ELSE stack' = Returning(<<>>)
    /\ UNCHANGED <<pc, schema, fields, graph, pushed, diffVars, authVars, extVars>>

\* One round of the loop over the properties, up to its nested call
Visit ==
    /\ pc = "running"
    /\ Top.phase = "loop"
    /\ LET node == graph[Top.node]
           i == Top.next
       IN  IF i > Len(node.properties) THEN stack' = Returning(Top.fields)
           ELSE LET prop == graph[node.properties[i]]
                IN  IF prop.type = "object"
                    THEN Call(node.properties[i], Top.depth + 1, "properties")
                    ELSE IF /\ prop.type = "array" /\ prop.items # <<>>
                            /\ graph[prop.items[1]].type = "object"
                    THEN Call(prop.items[1], Top.depth + 1, "items")
                    ELSE stack' = WithTop([Top EXCEPT
                                     !.fields = Append(@, WalkField(Top, "none", <<>>)),
                                     !.next = i + 1])
    /\ UNCHANGED <<pc, schema, fields, graph, pushed, diffVars, authVars, extVars>>

\* The top call returns: to the call expression its caller waits in, or to
\* the caller of the outermost call
Return ==
    /\ pc = "running"
    /\ Top.phase = "return"
    /\ IF Len(stack) = 1
       THEN /\ fields' = Top.fields
            /\ stack' = <<>>
            /\ pc' = "done"
       ELSE LET value == Top.fields
                caller == stack[Len(stack) - 1]
                rest == SubSeq(stack, 1, Len(stack) - 2)
            IN  /\ stack' =
                      IF caller.site = "array"
                      THEN Append(rest, [caller EXCEPT !.phase = "return",
                                                       !.fields = value,
                                                       !.site = "none"])
                      ELSE Append(rest,
                               [caller EXCEPT
                                   !.fields =
                                       Append(@, WalkField(caller, caller.site, value)),
                                   !.next = @ + 1,
                                   !.site = "none"])
                /\ UNCHANGED <<pc, fields>>
    /\ UNCHANGED <<schema, graph, pushed, diffVars, authVars, extVars>>

RangeErrorMessage == "Maximum call stack size exceeded"

\* The catch of the top call: the warning is pushed and [] returned; with
\* the stack exhausted the push itself may raise RangeError, which leaves
\* the call
Catch ==
    /\ pc = "running"
    /\ Top.phase = "catch"
    /\ \/ /\ pushed' = Append(pushed, "Failed to convert schema: " \o RangeErrorMessage)
          /\ stack' = Returning(<<>>)
       \/ /\ StackExhausted
          /\ stack' = WithTop([Top EXCEPT !.phase = "throw"])
          /\ UNCHANGED pushed
    /\ UNCHANGED <<pc, schema, fields, graph, diffVars, authVars, extVars>>

\* An exception leaves the top call and arrives in the call expression its
\* caller waits in, or leaves the outermost call
Unwind ==
    /\ pc = "running"
    /\ Top.phase = "throw"
    /\ IF Len(stack) = 1
       THEN /\ stack' = <<>>
            /\ pc' = "threw"
       ELSE LET caller == stack[Len(stack) - 1]
            IN  /\ stack' = Append(SubSeq(stack, 1, Len(stack) - 2),
                                   [caller EXCEPT
                                       !.phase = IF InTry(caller.site)
                                                 THEN "catch" ELSE "throw"])
                /\ UNCHANGED pc
    /\ UNCHANGED <<schema, fields, graph, pushed, diffVars, authVars, extVars>>

InitWalk ==
    /\ pc = "ready"
    /\ graph \in [NodeIds -> GraphNodes]
    /\ stack = <<>>
    /\ pushed = <<>>
    /\ schema = NoSchema /\ fields = <<>>
    /\ DiffIdle /\ AuthIdle /\ ExtIdle

NextWalk == StartWalk \/ Enter \/ Visit \/ Return \/ Catch \/ Unwind

\* The call runs on one thread and nothing suspends it: a step that can be
\* taken is taken
SpecWalk == InitWalk /\ [][NextWalk]_vars /\ WF_vars(NextWalk)

WalkReturned == pc = "done"

\* C21: schemaToFields terminates on every schema graph, a schema that
\* reaches itself through its properties, through the items of a property or
\* through the items of a top-level array included: every call returns.
C21_Terminates == <>WalkReturned

\* A top-level array whose items are the array itself has returned
C21_Witness ==
    /\ WalkReturned
    /\ graph[1].type = "array" /\ graph[1].items = <<1>>
    /\ fields = <<>>
    /\ pushed = <<"Failed to convert schema: " \o RangeErrorMessage>>


-----------------------------------------------------------------------------
(* Authentication runs (SpecAuth) *)

ApiKeyNames == {"X-API-Key", ""}

\* components.securitySchemes entries of an OpenAPI 3 document
OpenAPI3Schemes ==
    {SecurityScheme("apiKey", "", loc, nm, FALSE) :
        loc \in {"header", "query", "cookie"}, nm \in ApiKeyNames}
    \cup {SecurityScheme("http", sch, "", "", FALSE) : sch \in {"bearer", "basic"}}
    \cup {SecurityScheme("oauth2", "", "", "", FALSE),
          SecurityScheme("openIdConnect", "", "", "", FALSE),
          SecurityScheme("undefined", "", "", "", TRUE)}

\* securityDefinitions entries of a Swagger 2.0 document
Swagger2Schemes ==
    {SecurityScheme("apiKey", "", loc, nm, FALSE) :
        loc \in {"header", "query"}, nm \in ApiKeyNames}
    \cup {SecurityScheme("basic", "", "", "", FALSE),
          SecurityScheme("oauth2", "", "", "", FALSE)}

ExtractAuthOpenAPI3 ==
    /\ pc = "ready"
    /\ dialect = "openapi3"
    /\ auth' = extractAuthOpenAPI3(schemes)
    /\ pc' = "done"
    /\ UNCHANGED <<dialect, schemes, diffVars, flatVars, extVars>>

ExtractAuthSwagger2 ==
    /\ pc = "ready"
    /\ dialect = "swagger2"
    /\ auth' = extractAuthSwagger2(schemes)
    /\ pc' = "done"
    /\ UNCHANGED <<dialect, schemes, diffVars, flatVars, extVars>>

InitAuth ==
    /\ pc = "ready"
    /\ \/ dialect = "openapi3" /\ schemes \in SeqUpTo(OpenAPI3Schemes, MaxSchemes)
       \/ dialect = "swagger2" /\ schemes \in SeqUpTo(Swagger2Schemes, MaxSchemes)
    /\ auth = NoAuth
    /\ DiffIdle /\ FlatIdle /\ ExtIdle

NextAuth == ExtractAuthOpenAPI3 \/ ExtractAuthSwagger2

SpecAuth == InitAuth /\ [][NextAuth]_vars

IsApiKeyScheme(s) == ~s.isRef /\ s.type = "apiKey"

IsBearerOrBasic(s) ==
    /\ ~s.isRef
    /\ \/ s.type = "http" /\ s.scheme \in {"bearer", "basic"}
       \/ s.type = "basic"

DeclaresApiKeyAndBearer ==
    /\ \E i \in 1..Len(schemes) : IsApiKeyScheme(schemes[i])
    /\ \E i \in 1..Len(schemes) : IsBearerOrBasic(schemes[i])

FirstApiKey == Find(schemes, IsApiKeyScheme)

\* C7 as stated: in both dialects a document declaring an API-key scheme
\* and a bearer (or basic) scheme, in either order, resolves to apiKey, and a
\* document declaring no scheme resolves to none.
C7_ApiKeyAlwaysWins ==
    Done =>
        /\ DeclaresApiKeyAndBearer => auth.type = "apiKey"
        /\ schemes = <<>> => auth.type = "none"

\* C7 amended: in both dialects a document declaring an API-key scheme and
\* a bearer (or basic) scheme, in either order, resolves to apiKey when its
\* first declared API-key scheme has a non-empty name and is sent in the
\* header or the query; otherwise the API-key scheme is passed over and the
\* result is not apiKey.  A document declaring no scheme resolves to none.
C7_UsableApiKeyWins ==
    Done =>
        /\ DeclaresApiKeyAndBearer =>
              (auth.type = "apiKey" <=>
                  /\ FirstApiKey[1].name # ""
                  /\ FirstApiKey[1].in \in {"header", "query"})
        /\ (DeclaresApiKeyAndBearer /\ auth.type = "apiKey") =>
              auth.config = <<[name |-> FirstApiKey[1].name,
                               in |-> FirstApiKey[1].in]>>
        /\ schemes = <<>> => auth.type = "none"

\* A bearer scheme declared before a header API key, resolved to apiKey
C7_Witness ==
    /\ Done
    /\ dialect = "openapi3"
    /\ Len(schemes) = 2
    /\ schemes[1].type = "http" /\ schemes[1].scheme = "bearer"
    /\ schemes[2].type = "apiKey" /\ schemes[2].in = "header"
    /\ auth.type = "apiKey"

-----------------------------------------------------------------------------
(* Inputs of the command runs: operations, documents, validator behaviour *)

LimitParameter(required) ==
    Parameter("limit", "query", required, "integer", <<Leaf("integer")>>)

ListPets ==
    Operation("listPets", "List pets", Array(<<LimitParameter(FALSE)>>), <<>>,
              TRUE, <<>>, Array(<<"Pets">>), FALSE)

\* listPets with its parameter made required
ListPetsRequired ==
    Operation("listPets", "List pets", Array(<<LimitParameter(TRUE)>>), <<>>,
              TRUE, <<>>, Array(<<"Pets">>), FALSE)

\* A deprecated operation without operationId, tagged twice
Legacy ==
    Operation("", "", Absent, <<>>, TRUE, <<>>,
              Array(<<"admin", "Pets", "Store">>), TRUE)

\* An operation whose parameters are an object, not an array
Broken ==
    Operation("brokenOp", "", NotArray("object"), <<>>, TRUE, <<>>, Absent, FALSE)

\* An operation without a responses object
NoResponses ==
    Operation("ping", "", Absent, <<>>, FALSE, <<>>, Absent, FALSE)

\* An operation whose tags are one string, not an array of strings
StringTags ==
    Operation("tagged", "", Absent, <<>>, TRUE, <<>>, NotArray("string"), FALSE)

OperationKinds == {ListPets, Legacy, Broken, NoResponses, StringTags}

PetsItems ==
    {PathItem("/pets", ops) :
        ops \in [{"get"} -> OperationKinds]
                \cup [{"get", "post"} -> {ListPets, Legacy, Broken}]}

PetItems ==
    {PathItem("/pets/{petId}", ops) : ops \in [{"get"} -> OperationKinds]}

PathLists ==
    {<<>>} \cup {<<p>> : p \in PetsItems}
           \cup {<<p, q>> : p \in PetsItems, q \in PetItems}

Petstore == Info("Petstore", "1.0.0")

\* The version markers and info of a document: OpenAPI 3.0 and 3.1, one of
\* them without info, Swagger 2.0 without a title, both markers at once, and
\* markers of no supported dialect
DocumentHeads ==
    {<<Str("3.0.3"), Undefined, <<Petstore>>>>,
     <<Str("3.1.0"), Undefined, <<>>>>,
     <<Undefined, Str("2.0"), <<Info("", "1.0.0")>>>>,
     <<Str("3.0.3"), Str("2.0"), <<Petstore>>>>,
     <<Str("30"), Undefined, <<Petstore>>>>,
     <<Num, Str("1.2"), <<Petstore>>>>,
     <<Undefined, Undefined, <<Petstore>>>>}

BearerScheme == SecurityScheme("http", "bearer", "", "", FALSE)

Documents ==
    {Document(h[1], h[2], h[3], paths, <<BearerScheme>>) :
        h \in DocumentHeads, paths \in PathLists}

\* Messages the validator throws: unresolved references in the wording of
\* two versions of the reference resolver, and a schema violation
MissingPointer ==
    "Missing $ref pointer \"#/components/schemas/Pet\". Token \"Pet\" does not exist."
TokenMissing ==
    "Error resolving $ref pointer \"#/definitions/Pet\". Token \"Pet\" does not exist."
SchemaInvalid == "Swagger schema validation failed."
ParseError == "not a valid Openapi API definition"

ValidateOutcomes ==
    {Resolves, Rejects(MissingPointer), Rejects(TokenMissing),
     Rejects(SchemaInvalid), RejectsNonError}

Behaviours ==
    [validate : ValidateOutcomes, parse : {Resolves, Rejects(ParseError)}]

LoadError == "Failed to read file: ENOENT: no such file or directory"

-----------------------------------------------------------------------------
(* The validate command: load, parseSpec, summary, exit code *)

InitValidate ==
    /\ pc = "validate"
    /\ opts \in [json : BOOLEAN, strict : BOOLEAN, breakingOnly : {FALSE}]
    /\ at = [i \in Calls |-> "idle"]
    /\ \/ /\ loads = [i \in Calls |-> "ok"]
          /\ \E doc \in Documents, behaviour \in Behaviours :
                /\ spec = [i \in Calls |-> IF i = 1 THEN doc ELSE NoDocument]
                /\ validator = [i \in Calls |-> IF i = 1 THEN behaviour
                                                ELSE NoBehaviour]
       \/ /\ loads = [i \in Calls |-> IF i = 1 THEN LoadError ELSE "ok"]
          /\ spec = [i \in Calls |-> NoDocument]
          /\ validator = [i \in Calls |-> NoBehaviour]
    /\ validatedSpec = [i \in Calls |-> NoDocument]
    /\ parseWarnings = [i \in Calls |-> <<>>]
    /\ called = [i \in Calls |-> <<>>]
    /\ parseResult = [i \in Calls |-> Pending]
    /\ exitCode = -1
    /\ summary = NoSummary
    /\ report = NoReport
    /\ DiffIdle /\ FlatIdle /\ AuthIdle /\ AuxIdle

NextValidate ==
    \/ ValidateLoad
    \/ \E i \in Calls : CallValidate(i)
    \/ \E i \in Calls : ValidateSettles(i)
    \/ \E i \in Calls : ParseSettles(i)
    \/ ValidateReport

SpecValidate == InitValidate /\ [][NextValidate]_vars

-----------------------------------------------------------------------------
(* Properties of parseSpec *)

Returned(i) == at[i] = "done"

ApiFields ==
    {"name", "description", "version", "baseUrl", "auth", "actions", "warnings"}

\* A success result: the model with every field of ParsedAPI, and no error
IsSuccess(r) ==
    /\ DOMAIN r = {"success", "api"}
    /\ r.success
    /\ DOMAIN r.api = ApiFields
    /\ r.api.name # ""

\* A failure result: an error string, the details, and no model
IsFailure(r) ==
    /\ DOMAIN r = {"success", "error", "details"}
    /\ ~r.success
    /\ r.error # ""

\* C11: whatever the document and however validate, parse and the extraction
\* behave, an invocation that has returned holds exactly one of a success
\* result with a complete model or a failure result with an error string and
\* no model; it is never left without a result.
C11_SuccessOrFailure ==
    \A i \in Calls :
        Returned(i) =>
            /\ parseResult[i] # Pending
            /\ IsSuccess(parseResult[i]) # IsFailure(parseResult[i])

\* A document whose extraction threw after an operation had been extracted
C11_Witness ==
    /\ Returned(1)
    /\ ~validator[1].validate.threw
    /\ Len(spec[1].paths) = 2
    /\ spec[1].info = <<>>
    /\ IsFailure(parseResult[1])
    /\ parseResult[1].error = "Failed to parse OpenAPI 3 specification"

\* validate threw an error that reports unresolved references only
ReportsUnresolvedReferences(i) ==
    validator[i].validate \in {Rejects(MissingPointer), Rejects(TokenMissing)}

FailedAsInvalid(i) ==
    /\ IsFailure(parseResult[i])
    /\ parseResult[i].error = "Invalid OpenAPI/Swagger specification"

RecordsUnresolvedReferences(w, i) ==
    /\ Includes(w, "Unresolved references")
    /\ Includes(w, validator[i].validate.message)

Validated(i) ==
    \/ ~validator[i].validate.threw
    \/ ReportsUnresolvedReferences(i) /\ ~validator[i].parse.threw

OpenAPIMarked(doc) ==
    doc.openapi.type = "string" /\ SubSeq(doc.openapi.value, 1, 2) = "3."

SwaggerMarked(doc) == doc.swagger.type = "string" /\ doc.swagger.value = "2.0"

Extractors == {"parseOpenAPI3", "parseSwagger2"}

ExtractorsRun(i) == Range(called[i]) \cap Extractors

\* C13: a validated document whose openapi marker is a string starting with
\* "3." goes to the OpenAPI 3 extractor alone; otherwise one whose swagger
\* marker is "2.0" goes to the Swagger 2 extractor alone; otherwise the
\* invocation fails as unsupported and no extractor runs.
C13_DialectDispatch ==
    \A i \in Calls :
        Returned(i) /\ Validated(i) =>
            IF OpenAPIMarked(spec[i])
            THEN /\ ExtractorsRun(i) = {"parseOpenAPI3"}
                 /\ IsFailure(parseResult[i]) =>
                        parseResult[i].error = "Failed to parse OpenAPI 3 specification"
            ELSE IF SwaggerMarked(spec[i])
            THEN /\ ExtractorsRun(i) = {"parseSwagger2"}
                 /\ IsFailure(parseResult[i]) =>
                        parseResult[i].error = "Failed to parse Swagger 2.0 specification"
            ELSE /\ ExtractorsRun(i) = {}
                 /\ IsFailure(parseResult[i])
                 /\ parseResult[i].error = "Unsupported specification version"

\* A document carrying both markers went to the OpenAPI 3 extractor
C13_Witness ==
    /\ Returned(1)
    /\ Validated(1)
    /\ OpenAPIMarked(spec[1]) /\ SwaggerMarked(spec[1])
    /\ called[1] = <<"validate", "parseOpenAPI3">>
    /\ IsSuccess(parseResult[1])

UpperCased ==
    [m \in Range(HTTP_METHODS) |->
        CASE m = "get" -> "GET" [] m = "post" -> "POST" [] m = "put" -> "PUT"
          [] m = "patch" -> "PATCH" [] m = "delete" -> "DELETE"]

\* The (path, method) operations a document declares
DeclaredOperations(doc) ==
    UNION {{<<doc.paths[k].path, m>> :
               m \in Range(HTTP_METHODS) \cap DOMAIN doc.paths[k].operations} :
           k \in 1..Len(doc.paths)}

OperationAt(doc, path, m) ==
    LET k == CHOOSE k \in 1..Len(doc.paths) :
                 doc.paths[k].path = path /\ m \in DOMAIN doc.paths[k].operations
    IN  doc.paths[k].operations[m]

ActionsFor(api, path, m) ==
    {k \in 1..Len(api.actions) :
        api.actions[k].method = UpperCased[m] /\ api.actions[k].path = path}

\* The warnings that name the upper-cased method and the path and give a reason
FailuresFor(api, path, m) ==
    LET prefix == "Failed to parse " \o UpperCased[m] \o " " \o path \o ": "
    IN  {k \in 1..Len(api.warnings) :
            /\ Len(api.warnings[k]) > Len(prefix)
            /\ SubSeq(api.warnings[k], 1, Len(prefix)) = prefix}

\* The document got through validation and dispatch and has the info object
\* the extractors read
Extractable(i) ==
    /\ Validated(i)
    /\ OpenAPIMarked(spec[i]) \/ SwaggerMarked(spec[i])
    /\ spec[i].info # <<>>

\* The action an operation yields when it is the only one of its document
ActionAlone(i, path, m) ==
    createAction(IF OpenAPIMarked(spec[i]) THEN "openapi3" ELSE "swagger2",
                 [path |-> path, method |-> m,
                  operation |-> OperationAt(spec[i], path, m)],
                 <<>>).value

\* C14: every declared (path, method) operation yields either exactly one
\* Action and no failure warning, or no Action and exactly one warning naming
\* the upper-cased method, the path and the reason; the failure of one
\* operation leaves the Actions of the others as they are alone and leaves
\* the document result a success.
C14_ActionOrWarning ==
    \A i \in Calls :
        Returned(i) /\ Extractable(i) =>
            /\ IsSuccess(parseResult[i])
            /\ \A o \in DeclaredOperations(spec[i]) :
                  LET actions == ActionsFor(parseResult[i].api, o[1], o[2])
                      failures == FailuresFor(parseResult[i].api, o[1], o[2])
                  IN  /\ Cardinality(actions) + Cardinality(failures) = 1
                      /\ \A k \in actions :
                            <<parseResult[i].api.actions[k]>>
                                = ActionAlone(i, o[1], o[2])
            /\ Len(parseResult[i].api.actions)
                   = Cardinality({o \in DeclaredOperations(spec[i]) :
                         ActionsFor(parseResult[i].api, o[1], o[2]) # {}})

\* One operation failed and the two others of the document were extracted
C14_Witness ==
    /\ Returned(1)
    /\ Extractable(1)
    /\ Len(spec[1].paths) = 2
    /\ spec[1].paths[1].operations = [m \in {"get", "post"} |->
                                         IF m = "get" THEN Broken ELSE ListPets]
    /\ spec[1].paths[2].operations = [m \in {"get"} |-> Legacy]
    /\ IsSuccess(parseResult[1])
    /\ Len(parseResult[1].api.actions) = 2
    /\ "Failed to parse GET /pets: op.parameters is not iterable"
           \in Range(parseResult[1].api.warnings)

-----------------------------------------------------------------------------
(* Properties of the validate command and of buildValidationSummary *)

Exited == pc = "done"

LoadFailed(i) == loads[i] # "ok"

ParseFailed(i) == Returned(i) /\ ~parseResult[i].success

\* C16: validate exits 1 exactly when the spec fails to load or to parse, or
\* --strict is given and the parsed model has a warning, and exits 0
\* otherwise; under --strict the error list is the warnings, one entry each,
\* and a reported valid flag is false exactly when the error list is not
\* empty.
C16_ValidateExitCode ==
    Exited =>
        /\ exitCode = IF \/ LoadFailed(1)
                         \/ ParseFailed(1)
                         \/ /\ opts.strict
                            /\ parseResult[1].api.warnings # <<>>
                      THEN 1 ELSE 0
        /\ ~LoadFailed(1) /\ ~ParseFailed(1) =>
              /\ opts.strict =>
                    /\ Len(summary.errors) = Len(parseResult[1].api.warnings)
                    /\ \A k \in 1..Len(summary.errors) :
                          Includes(summary.errors[k],
                                   parseResult[1].api.warnings[k])
              /\ report.kind = "json" =>
                    (report.object.valid <=> summary.errors = <<>>)

\* Every action of the model carries its tags as a list of strings, or none
Canonical(api) ==
    \A k \in 1..Len(api.actions) :
        api.actions[k].tags.type \in {"undefined", "array"}

TagsOf(api) ==
    UNION {Range(api.actions[k].tags.items) : k \in 1..Len(api.actions)}

RECURSIVE Sum(_, _)
Sum(f, keys) ==
    IF keys = {} THEN 0
    ELSE LET k == CHOOSE k \in keys : TRUE
         IN  f[k] + Sum(f, keys \ {k})

\* C17: for a canonical model the summary counts the actions, counts them by
\* method for the methods that occur (the counts adding up to the total),
\* lists the tags of all actions once each in sorted order, and counts the
\* deprecated actions; the model is left as parseSpec returned it.
C17_SummaryCounts ==
    Exited /\ ~LoadFailed(1) /\ ~ParseFailed(1) /\ Canonical(parseResult[1].api) =>
        LET api == parseResult[1].api
        IN  /\ DOMAIN summary # DOMAIN NoSummary
            /\ summary.endpointCount = Len(api.actions)
            /\ DOMAIN summary.endpointsByMethod
                   = {api.actions[k].method : k \in 1..Len(api.actions)}
            /\ \A m \in DOMAIN summary.endpointsByMethod :
                  summary.endpointsByMethod[m]
                      = Cardinality({k \in 1..Len(api.actions) :
                                        api.actions[k].method = m})
            /\ Sum(summary.endpointsByMethod, DOMAIN summary.endpointsByMethod)
                   = summary.endpointCount
            /\ Range(summary.tags) = TagsOf(api)
            /\ Len(summary.tags) = Cardinality(TagsOf(api))
            /\ \A k \in 1..(Len(summary.tags) - 1) :
                  StringLess(summary.tags[k], summary.tags[k + 1])
            /\ summary.deprecated
                   = Cardinality({k \in 1..Len(api.actions) :
                                     api.actions[k].deprecated})
            /\ summary.warnings = api.warnings
            /\ parseResult[1] = parseSpecAlone(spec[1], validator[1])

\* Two GET actions and a POST action, tagged Pets, admin and Store, one of
\* them deprecated
C17_Witness ==
    /\ Exited
    /\ ~LoadFailed(1) /\ ~ParseFailed(1)
    /\ Canonical(parseResult[1].api)
    /\ summary.endpointCount = 3
    /\ summary.endpointsByMethod = [m \in {"GET", "POST"} |->
                                       IF m = "GET" THEN 2 ELSE 1]
    /\ summary.tags = <<"Pets", "Store", "admin">>
    /\ summary.deprecated = 1

-----------------------------------------------------------------------------
(* The diff command: two loads, two interleaved parseSpec calls, the diff *)

PetstoreDocument(paths) ==
    Document(Str("3.0.3"), Undefined, <<Petstore>>, paths, <<BearerScheme>>)

Pets(get) == PathItem("/pets", [m \in {"get"} |-> get])

PetsWithPost(get, post) ==
    PathItem("/pets", [m \in {"get", "post"} |-> IF m = "get" THEN get ELSE post])

DiffDocuments ==
    {PetstoreDocument(<<Pets(ListPets)>>),
     PetstoreDocument(<<PetsWithPost(ListPets, Legacy)>>),
     PetstoreDocument(<<Pets(ListPetsRequired)>>),
     PetstoreDocument(<<PetsWithPost(Broken, Legacy)>>),
     Document(Str("3.0.3"), Undefined, <<>>, <<Pets(ListPets)>>, <<>>),
     Document(Undefined, Str("2.0"), <<Petstore>>, <<Pets(ListPets)>>, <<>>)}

DiffBehaviours ==
    [validate : {Resolves, Rejects(MissingPointer), Rejects(SchemaInvalid)},
     parse : {Resolves, Rejects(ParseError)}]

InitDiffCommand ==
    /\ pc = "diff"
    /\ opts \in [json : BOOLEAN, strict : {FALSE}, breakingOnly : BOOLEAN]
    /\ at = [i \in Calls |-> "idle"]
    /\ \/ /\ loads = [i \in Calls |-> "ok"]
          /\ spec \in [Calls -> DiffDocuments]
          /\ validator \in [Calls -> DiffBehaviours]
       \/ /\ loads \in [Calls -> {"ok", LoadError}]
          /\ \E i \in Calls : loads[i] # "ok"
          /\ spec = [i \in Calls |-> NoDocument]
          /\ validator = [i \in Calls |-> NoBehaviour]
    /\ validatedSpec = [i \in Calls |-> NoDocument]
    /\ parseWarnings = [i \in Calls |-> <<>>]
    /\ called = [i \in Calls |-> <<>>]
    /\ parseResult = [i \in Calls |-> Pending]
    /\ exitCode = -1
    /\ summary = NoSummary
    /\ report = NoReport
    /\ DiffIdle /\ FlatIdle /\ AuthIdle /\ AuxIdle

NextDiffCommand ==
    \/ DiffLoad
    \/ \E i \in Calls : CallValidate(i)
    \/ \E i \in Calls : ValidateSettles(i)
    \/ \E i \in Calls : ParseSettles(i)
    \/ DiffReport

SpecDiffCommand == InitDiffCommand /\ [][NextDiffCommand]_vars

\* C15: once both specs load and parse, diff exits 1 exactly when the diff of
\* the two action lists holds a breaking change and 0 otherwise, whatever
\* --json and --breaking-only are; when a spec fails to load or to parse it
\* exits 1 and the diff is not run.
C15_DiffExitCode ==
    Exited =>
        IF \E i \in Calls : LoadFailed(i)
        THEN /\ exitCode = 1
             /\ result = NoResult
             /\ \A i \in Calls : at[i] = "idle"
        ELSE IF \E i \in Calls : ParseFailed(i)
        THEN exitCode = 1 /\ result = NoResult
        ELSE /\ result = diffSpecs(DiffInput(parseResult[1].api.actions),
                                   DiffInput(parseResult[2].api.actions))
             /\ exitCode \in {0, 1}
             /\ exitCode = 1 <=> result.breakingCount > 0
             /\ result.breakingCount > 0 <=>
                    \E k \in 1..Len(result.changes) :
                        result.changes[k].type = "breaking"

\* An endpoint was removed: exit code 1 with --json and --breaking-only
C15_Witness ==
    /\ Exited
    /\ \A i \in Calls : ~LoadFailed(i) /\ ~ParseFailed(i)
    /\ opts.json /\ opts.breakingOnly
    /\ result.breakingCount = 1
    /\ result.nonBreakingCount = 0
    /\ exitCode = 1

\* C19: however the steps of two invocations interleave, each returns the
\* result it returns when run alone, so that no warning of one document is in
\* the other's list, and no step changes an input document.
C19_Interleaving ==
    /\ [](\A i \in Calls :
             Returned(i) => parseResult[i] = parseSpecAlone(spec[i], validator[i]))
    /\ [][spec' = spec]_vars

\* The second invocation ran from start to result, with a warning of its own,
\* while the first was suspended in the tolerant parse with its warning pushed
C19_Witness ==
    /\ at[1] = "parse"
    /\ parseWarnings[1] # <<>>
    /\ Returned(2)
    /\ parseResult[2].success
    /\ parseResult[2].api.warnings
           = <<"Failed to parse GET /pets: op.parameters is not iterable">>

-----------------------------------------------------------------------------
(* Resolving the API key *)

KeyValues == {Undefined, Str(""), Str("sk_flag"), Str("sk_env")}

ConfigFiles ==
    {NoFile, File("garbage", <<>>), File("json", JsonNull),
     File("json", JsonObject(<<>>)), File("json", JsonObject(<<"">>)),
     File("json", JsonObject(<<"sk_file">>))}

InitConfig ==
    /\ pc = "config"
    /\ flagValue \in KeyValues \ {Str("sk_env")}
    /\ env \in KeyValues \ {Str("sk_flag")}
    /\ configFile \in ConfigFiles
    /\ apiKey = NotResolved
    /\ DiffIdle /\ FlatIdle /\ AuthIdle /\ ParseIdle /\ CommandIdle /\ ServerIdle

NextConfig == SetConfig \/ ResolveApiKey

SpecConfig == InitConfig /\ [][NextConfig]_vars

\* A source that is present and not empty
Given(v) == v.type = "string" /\ v.value # ""

\* The apiKey the config file holds, if it is a JSON document that has one
KeyOnFile ==
    IF configFile.kind = "json" /\ configFile.value.apiKey # <<>>
    THEN Str(configFile.value.apiKey[1]) ELSE Undefined

\* C18: resolveApiKey returns the flag when given, otherwise the environment
\* value when set, otherwise the apiKey of the config file, otherwise
\* undefined; a source is used only when those before it are absent or
\* empty.
C18_KeyPrecedence ==
    apiKey # NotResolved =>
        apiKey = Returns(IF Given(flagValue) THEN flagValue
                         ELSE IF Given(env) THEN env
                         ELSE KeyOnFile)

-----------------------------------------------------------------------------
(* The preview server *)

SpecFiles ==
    {File("yaml", <<"v1">>), File("json", <<"v1">>), File("json", <<"v2">>),
     File("garbage", <<>>), NoFile}

InitPreview ==
    /\ pc = "serving"
    /\ disk = File("yaml", <<"v1">>)
    /\ watcher = NoChanges
    /\ specJson = loadSpecJson(disk).value
    /\ connections = [c \in Connections |-> "none"]
    /\ clients = {}
    /\ sent = [c \in Connections |-> <<>>]
    /\ served = <<>>
    /\ DiffIdle /\ FlatIdle /\ AuthIdle /\ ParseIdle /\ CommandIdle /\ KeyIdle

NextPreview ==
    \/ \E c \in Connections : Connect(c)
    \/ \E c \in Connections : Close(c)
    \/ Page
    \/ \E file \in SpecFiles : Save(file)
    \/ Change

SpecPreview == InitPreview /\ [][NextPreview]_vars

\* The step handles a 'change' event of the watcher
HandlesChange == watcher'.pending < watcher.pending

Parses(file) == file.kind \in {"json", "yaml"}

Open(c) == connections[c] = "open"

\* The spec embedded in a reload event and in a page: the title it carries
Carries(text, title) == Includes(text, "\"title\":\"" \o title \o "\"")

\* C20: when the changed file reloads, every client connected at that moment
\* is sent one reload event carrying the new spec and the server serves that
\* spec from then on; when it cannot be parsed nothing is sent and the served
\* spec stays; a closed client is out of the client set and is never sent
\* anything again; every page carries the spec in effect.
C20_HotReload ==
    /\ [](clients = {c \in Connections : Open(c)})
    /\ [][/\ HandlesChange /\ Parses(disk) =>
              /\ Carries(specJson', disk.value[1])
              /\ \A c \in Connections :
                    IF Open(c)
                    THEN /\ Len(sent'[c]) = Len(sent[c]) + 1
                         /\ SubSeq(sent'[c], 1, Len(sent[c])) = sent[c]
                         /\ sent'[c][Len(sent'[c])]
                                = "event: reload\ndata: " \o specJson' \o "\n\n"
                    ELSE sent'[c] = sent[c]
          /\ HandlesChange /\ ~Parses(disk) =>
              sent' = sent /\ specJson' = specJson
          /\ ~HandlesChange => specJson' = specJson
          /\ \A c \in Connections :
                connections[c] = "closed" =>
                    sent'[c] = sent[c] /\ connections'[c] = "closed"
          /\ Len(served') > Len(served) =>
              Includes(served'[Len(served')], specJson)]_vars

\* A client that had closed got nothing, the other got the reload to v2, a
\* later unparsable save was ignored, and the page served carries v2
C20_Witness ==
    /\ connections = [c \in Connections |-> IF c = "c1" THEN "closed" ELSE "open"]
    /\ sent["c1"] = <<Hello>>
    /\ sent["c2"] = <<Hello, ReloadEvent(Stringify("v2"))>>
    /\ disk = File("garbage", <<>>)
    /\ watcher = [pending |-> 0, saved |-> 2]
    /\ served # <<>>
    /\ Carries(served[Len(served)], "v2")

-----------------------------------------------------------------------------
(* Extraction runs (SpecExtract): one operation with a request body and    *)
(* 200 / 201 / 2XX responses, parsed through the validate command          *)

Plain(k, t) == Property(k, Leaf(t))

ObjectWith(props, req) == SchemaNode("object", TRUE, props, req, <<>>, FALSE)

\* {id: integer (required), name: string}
PlainBody == ObjectWith(<<Plain("id", "integer"), Plain("name", "string")>>, <<"id">>)

\* {id: integer, name: null}
NullTop == ObjectWith(<<Plain("id", "integer"), Property("name", NullSchema)>>, <<>>)

\* {id: integer, owner: {name: null}, tag: string}
NullNested ==
    ObjectWith(<<Plain("id", "integer"),
                 Property("owner", ObjectOf("name", NullSchema, <<>>)),
                 Plain("tag", "string")>>, <<>>)

\* {pets: [{name: null}], tag: string}
NullItems ==
    ObjectWith(<<Property("pets", ArrayOf(ObjectOf("name", NullSchema, <<>>))),
                 Plain("tag", "string")>>, <<>>)

\* [{name: null}]
ArrayOfNull == ArrayOf(ObjectOf("name", NullSchema, <<>>))

\* {a: {x: null}, b: {y: null}}
TwoNull ==
    ObjectWith(<<Property("a", ObjectOf("x", NullSchema, <<>>)),
                 Property("b", ObjectOf("y", NullSchema, <<>>))>>, <<>>)

\* {a: {b: {c: {d: null}}}}: the properties of c lie below the depth bound
DeepNull == ThreeDeep(ObjectOf("d", NullSchema, <<>>))

MalformedSchemas == {NullTop, NullNested, NullItems, ArrayOfNull, TwoNull, DeepNull}

BodySchemas == {PlainBody} \cup MalformedSchemas

\* The schema of the response declared under a status code
ResponseSchema(code) == ObjectOf("status" \o code, Leaf("string"), <<>>)

NoContent == Content(FALSE, <<>>)
RefResponse == Content(TRUE, <<>>)

\* The body, 200, 201 and 2XX of the operation of a run
ExtractCases ==
    [body : {<<>>} \cup {<<s>> : s \in BodySchemas},
     success : {<<>>, <<NoContent>>, <<RefResponse>>,
                <<Content(FALSE, <<ResponseSchema("200")>>)>>,
                <<Content(FALSE, <<NullNested>>)>>},
     created : {<<>>, <<NoContent>>, <<Content(FALSE, <<ResponseSchema("201")>>)>>},
     anySuccess : {<<>>, <<Content(FALSE, <<ResponseSchema("2XX")>>)>>}]

Malformed(case) ==
    \/ case.body # <<>> /\ case.body[1] \in MalformedSchemas
    \/ case.success = <<Content(FALSE, <<NullNested>>)>>

\* createPet of an OpenAPI 3 document: the body is the requestBody
CreatePetV3(case) ==
    WithResponses(
        Operation("createPet", "Create a pet", Absent,
                  IF case.body = <<>> THEN <<>> ELSE <<Content(FALSE, case.body)>>,
                  TRUE, case.success, Absent, FALSE),
        case.created, case.anySuccess)

\* createPet of a Swagger 2 document: the body is the in: body parameter
CreatePetV2(case) ==
    WithResponses(
        Operation("createPet", "Create a pet",
                  IF case.body = <<>> THEN Absent
                  ELSE Array(<<Parameter("pet", "body", TRUE, "undefined", case.body)>>),
                  <<>>, TRUE, case.success, Absent, FALSE),
        case.created, case.anySuccess)

ExtractDocument(version, case) ==
    IF version = "openapi3"
    THEN Document(Str("3.0.3"), Undefined, <<Petstore>>,
                  <<PathItem("/pets", [m \in {"post"} |-> CreatePetV3(case)])>>,
                  <<BearerScheme>>)
    ELSE Document(Undefined, Str("2.0"), <<Petstore>>,
                  <<PathItem("/pets", [m \in {"post"} |-> CreatePetV2(case)])>>,
                  <<BearerScheme>>)

Tolerant == [validate |-> Rejects(MissingPointer), parse |-> Resolves]
Strict == [validate |-> Resolves, parse |-> Resolves]

\* A document with null in place of a schema fails schema validation: it
\* reaches extraction only through the reference-tolerant parse
InitExtract ==
    /\ pc = "validate"
    /\ opts \in [json : BOOLEAN, strict : {FALSE}, breakingOnly : {FALSE}]
    /\ at = [i \in Calls |-> "idle"]
    /\ loads = [i \in Calls |-> "ok"]
    /\ \E version \in {"openapi3", "swagger2"}, case \in ExtractCases,
          behaviour \in {Strict, Tolerant} :
          /\ Malformed(case) => behaviour = Tolerant
          /\ spec = [i \in Calls |-> IF i = 1 THEN ExtractDocument(version, case)
                                     ELSE NoDocument]
          /\ validator = [i \in Calls |-> IF i = 1 THEN behaviour ELSE NoBehaviour]
    /\ validatedSpec = [i \in Calls |-> NoDocument]
    /\ parseWarnings = [i \in Calls |-> <<>>]
    /\ called = [i \in Calls |-> <<>>]
    /\ parseResult = [i \in Calls |-> Pending]
    /\ exitCode = -1
    /\ summary = NoSummary
    /\ report = NoReport
    /\ DiffIdle /\ FlatIdle /\ AuthIdle /\ AuxIdle

SpecExtract == InitExtract /\ [][NextValidate]_vars

\* The operation of the run, its body schema and its responses
CreatePet == spec[1].paths[1].operations["post"]

BodyOf(op) ==
    IF op.requestBody # <<>> THEN op.requestBody[1].schema
    ELSE IF op.parameters.type = "array" THEN op.parameters.items[1].schema
    ELSE <<>>

\* The field of a property that declares a type and nothing else
PlainField(k, t, r) == Field(k, t, r, FALSE, <<>>, FALSE, <<>>)

\* The field of an object property with the given nested list
ObjectField(k, props) == Field(k, "object", FALSE, TRUE, props, FALSE, <<>>)

\* What flattening each schema of the runs is to return, written out, and
\* the number of calls that throw while flattening it
ExpectedFields(s) ==
    CASE s = PlainBody ->
            <<PlainField("id", "number", TRUE), PlainField("name", "string", FALSE)>>
      [] s = NullTop -> <<>>
      [] s = NullNested ->
            <<PlainField("id", "number", FALSE), ObjectField("owner", <<>>),
              PlainField("tag", "string", FALSE)>>
      [] s = NullItems ->
            <<Field("pets", "array", FALSE, FALSE, <<>>, TRUE,
                    <<ObjectField("item", <<>>)>>),
              PlainField("tag", "string", FALSE)>>
      [] s = ArrayOfNull -> <<>>
      [] s = TwoNull -> <<ObjectField("a", <<>>), ObjectField("b", <<>>)>>
      [] s = DeepNull ->
            <<ObjectField("a", <<ObjectField("b", <<ObjectField("c", <<>>)>>)>>)>>
      [] s \in {ResponseSchema(c) : c \in {"200", "201", "2XX"}} ->
            <<PlainField(s.properties[1].key, "string", FALSE)>>

ThrowingCalls(s) ==
    CASE s \in {NullTop, NullNested, NullItems, ArrayOfNull} -> 1
      [] s = TwoNull -> 2
      [] OTHER -> 0

ExpectedOf(declared) == IF declared = <<>> THEN <<>> ELSE ExpectedFields(declared[1])

ThrowingIn(declared) == IF declared = <<>> THEN 0 ELSE ThrowingCalls(declared[1])

ConvertWarnings(ws) ==
    SelectSeq(ws, LAMBDA w : StartsWith(w, "Failed to convert schema: "))

\* The invocation returned and its document was handed to an extractor
Extracted1 == Returned(1) /\ parseResult[1] # Pending /\ validatedSpec[1] # NoDocument

\* The action extracted for the operation of the run
CreatePetAction == parseResult[1].api.actions[1]

\* The 200 response as extractResponse* reads it: its schema, none for a $ref
SuccessSchema(op) ==
    IF op.success = <<>> \/ op.success[1].isRef THEN <<>> ELSE op.success[1].schema

\* C23: a call of schemaToFields that throws catches the exception itself:
\* one warning is pushed for each such call and the list of that node alone
\* is empty; the fields of the sibling properties, the other schema of the
\* operation, the action and the success of the document are as without it.
C23_CaughtLocally ==
    Extracted1 =>
        /\ parseResult[1].success
        /\ Len(parseResult[1].api.actions) = 1
        /\ CreatePetAction.bodySchema = ExpectedOf(BodyOf(CreatePet))
        /\ CreatePet.success # <<>> =>
              CreatePetAction.responseSchema = ExpectedOf(SuccessSchema(CreatePet))
        /\ Len(ConvertWarnings(parseResult[1].api.warnings))
              = ThrowingIn(BodyOf(CreatePet)) + ThrowingIn(SuccessSchema(CreatePet))

\* A body whose nested object threw, next to a response that did not: one
\* warning, the nested list empty, the siblings and the response intact
C23_Witness ==
    /\ Extracted1
    /\ BodyOf(CreatePet) = <<NullNested>>
    /\ CreatePet.success = <<Content(FALSE, <<ResponseSchema("200")>>)>>
    /\ parseResult[1].success
    /\ Len(CreatePetAction.bodySchema) = 3
    /\ CreatePetAction.bodySchema[2].properties = <<>>
    /\ Len(CreatePetAction.responseSchema) = 1
    /\ Len(ConvertWarnings(parseResult[1].api.warnings)) = 1

DeclaresSchema(response) ==
    response # <<>> /\ ~response[1].isRef /\ response[1].schema # <<>>

\* The first of 200, 201, 2XX that declares a JSON schema
FirstWithSchema(op) ==
    IF DeclaresSchema(op.success) THEN op.success
    ELSE IF DeclaresSchema(op.created) THEN op.created
    ELSE IF DeclaresSchema(op.anySuccess) THEN op.anySuccess
    ELSE <<>>

\* The first of 200, 201, 2XX that exists
FirstDeclared(op) ==
    IF op.success # <<>> THEN op.success
    ELSE IF op.created # <<>> THEN op.created
    ELSE op.anySuccess

\* C24 as stated: the response fields are those of the first of the 200, 201
\* and 2XX responses that declares a JSON schema, and the list is empty only
\* when none of the three declares one.
C24_FirstWithSchema ==
    Extracted1 =>
        CreatePetAction.responseSchema
            = IF FirstWithSchema(CreatePet) = <<>> THEN <<>>
              ELSE ExpectedOf(FirstWithSchema(CreatePet)[1].schema)

\* C24 amended: the response fields are those of the first of the 200, 201
\* and 2XX responses that exists; when that response is a $ref or declares no
\* JSON schema the list is empty, whatever a later response declares.
C24_FirstDeclared ==
    Extracted1 =>
        CreatePetAction.responseSchema
            = IF FirstDeclared(CreatePet) = <<>> \/ FirstDeclared(CreatePet)[1].isRef
              THEN <<>>
              ELSE ExpectedOf(FirstDeclared(CreatePet)[1].schema)

\* A 200 response without a JSON schema before a 201 response with one: the
\* list is empty
C24_Witness ==
    /\ Extracted1
    /\ CreatePet.success = <<NoContent>>
    /\ DeclaresSchema(CreatePet.created)
    /\ parseResult[1].success
    /\ CreatePetAction.responseSchema = <<>>

-----------------------------------------------------------------------------
(* One endpoint in both versions, its body and response varied (SpecShallow) *)

\* An array field with the given item type
ArrayField(k, r, t) ==
    Field(k, "array", r, FALSE, <<>>, TRUE, <<PlainField("item", t, FALSE)>>)

\* An object field with one nested property of the given type
AddressField(k, r, t) ==
    Field(k, "object", r, TRUE, <<PlainField("street", t, TRUE)>>, FALSE, <<>>)

OldBodyFields ==
    {PlainField("name", "string", TRUE), PlainField("name", "number", FALSE),
     AddressField("owner", FALSE, "string")}

NewBodyFields ==
    {PlainField("name", "string", r) : r \in BOOLEAN}
    \cup {AddressField("owner", r, "string") : r \in BOOLEAN}
    \cup {ArrayField("name", FALSE, "string"),
          PlainField("owner", "string", TRUE)}

OldResponseFields ==
    {PlainField("id", "number", TRUE), PlainField("tags", "string", FALSE),
     ArrayField("tags", FALSE, "string")}

NewResponseFields ==
    {PlainField("id", "string", TRUE), AddressField("id", TRUE, "number"),
     ArrayField("tags", FALSE, "number"), PlainField("name", "string", FALSE)}

\* The lists an object schema flattens to: no key twice
FieldLists(S) ==
    {fs \in SeqUpTo(S, MaxFields) :
        \A i, j \in 1..Len(fs) : fs[i].key = fs[j].key => i = j}

CreatePetWith(body, resp) ==
    ParsedAction("POST", "/pets", "Create a pet", <<>>, <<>>, body, resp, {})

InitShallow ==
    /\ pc = "ready"
    /\ \E body \in FieldLists(OldBodyFields),
          resp \in FieldLists(OldResponseFields) :
          oldActions = <<CreatePetWith(body, resp)>>
    /\ \E body \in FieldLists(NewBodyFields),
          resp \in FieldLists(NewResponseFields) :
          newActions = <<CreatePetWith(body, resp)>>
    /\ result = NoResult
    /\ FlatIdle /\ AuthIdle /\ ExtIdle

SpecShallow == InitShallow /\ [][NextDiff]_vars

KeyList(fs) == [i \in 1..Len(fs) |-> fs[i].key]

RequiredKeyList(fs) == KeyList(SelectSeq(fs, LAMBDA f : f.required))

\* The response keys that old has too: the others are added fields
KeptKeyList(fs, old) ==
    KeyList(SelectSeq(fs, LAMBDA f : f.key \in Keys(old.responseSchema)))

\* Two old versions with the same set of top-level body keys and the same
\* top-level response keys
SameOldKeys(a, b) ==
    /\ Keys(a.bodySchema) = Keys(b.bodySchema)
    /\ KeyList(a.responseSchema) = KeyList(b.responseSchema)

\* Two new versions with the same keys of required top-level body fields and
\* the same top-level response keys
SameNewKeys(a, b) ==
    /\ RequiredKeyList(a.bodySchema) = RequiredKeyList(b.bodySchema)
    /\ KeyList(a.responseSchema) = KeyList(b.responseSchema)

\* Two new versions that differ only in nested properties, array items,
\* field types, non-required body fields or response fields old lacks
DifferShallowly(a, b, old) ==
    /\ RequiredKeyList(a.bodySchema) = RequiredKeyList(b.bodySchema)
    /\ KeptKeyList(a.responseSchema, old) = KeptKeyList(b.responseSchema, old)

OldVersions ==
    {CreatePetWith(body, oldEndpoint.responseSchema) :
        body \in FieldLists(OldBodyFields)}
    \cup {CreatePetWith(oldEndpoint.bodySchema, resp) :
            resp \in FieldLists(OldResponseFields)}

NewVersions ==
    {CreatePetWith(body, newEndpoint.responseSchema) :
        body \in FieldLists(NewBodyFields)}
    \cup {CreatePetWith(newEndpoint.bodySchema, resp) :
            resp \in FieldLists(NewResponseFields)}

\* C30: the result depends on the body and response field lists only
\* through the set of old top-level body keys, the keys of the required new
\* top-level body fields and the old and new top-level response keys; new
\* versions that differ only in nested properties, array items, field types,
\* non-required body fields or added response fields give the same result
\* against the same old version.
C30_ShallowComparison ==
    Done =>
        /\ \A a \in OldVersions :
              SameOldKeys(a, oldEndpoint) => diffSpecs(<<a>>, newActions) = result
        /\ \A b \in NewVersions :
              (SameNewKeys(b, newEndpoint)
               \/ DifferShallowly(b, newEndpoint, oldEndpoint))
                  => diffSpecs(oldActions, <<b>>) = result

\* A result with a body and a response change that another new version,
\* different in a field's type, nesting, an optional body field and an added
\* response field, shares
C30_Witness ==
    /\ Done
    /\ result.breakingCount = 2
    /\ oldEndpoint.responseSchema =
          <<PlainField("id", "number", TRUE), PlainField("tags", "string", FALSE)>>
    /\ newEndpoint.bodySchema =
          <<AddressField("owner", TRUE, "string"), ArrayField("name", FALSE, "string")>>
    /\ newEndpoint.responseSchema =
          <<PlainField("id", "string", TRUE), PlainField("name", "string", FALSE)>>
    /\ diffSpecs(oldActions,
                 <<CreatePetWith(<<PlainField("owner", "string", TRUE)>>,
                                 <<AddressField("id", TRUE, "number")>>)>>) = result
    /\ diffSpecs(oldActions,
                 <<CreatePetWith(<<PlainField("owner", "string", TRUE)>>,
                                 <<ArrayField("tags", FALSE, "number")>>)>>) # result

====
